---- MODULE Spec2Model ----
(***************************************************************************)
(* Model of pytune_helpers_images: the EXIF GPS extraction pipeline of     *)
(* exif_gps.py (key resolver, DMS parser, decimal converter, extractor,    *)
(* reverse-geocoding wrapper) and the metadata container that images.py    *)
(* builds from it and sends through JSON.                                  *)
(*                                                                         *)
(* Python values are tagged records:                                       *)
(*   [t |-> "none"]                       None                             *)
(*   [t |-> "bool",  b |-> TRUE]          bool                             *)
(*   [t |-> "int",   n |-> 48]            int                              *)
(*   [t |-> "float", k, neg, m, e]        float, an IEEE-754 double        *)
(*   [t |-> "str",   s |-> <<71, 80>>]    str, its Unicode code points     *)
(*   [t |-> "list",  l |-> <<values>>]    list                             *)
(*   [t |-> "tuple", l |-> <<values>>]    tuple                            *)
(*   [t |-> "dict",  d |-> <<[k, v]>>]    dict, entries in insertion order,*)
(*                                        keys are values                  *)
(* A double is nan (k = "nan"), an infinity (k = "inf", sign neg) or the   *)
(* finite number (-1)^neg * m * 2^e (k = "fin") with m a natural number    *)
(* that is odd, or zero with e = 0.  Naturals of any size are written in   *)
(* base 2^15, least significant limb first, zero being <<>>: 1.5 is        *)
(* m = <<3>>, e = -1.  Arithmetic on doubles rounds to nearest, ties to    *)
(* even, to 53 bits, with subnormals and overflow to infinity.             *)
(*                                                                         *)
(* A call that may raise returns [ok |-> TRUE, v |-> value] or             *)
(* [ok |-> FALSE, exc |-> "ValueError"] (the class of the exception that   *)
(* leaves the callee).                                                     *)
(*                                                                         *)
(* str.lower, str.upper, str.isprintable, str.isspace and the decimal      *)
(* digits follow the Unicode database of the interpreter (14.0.0); int     *)
(* values stay within 32 bits.                                             *)
(***************************************************************************)
EXTENDS Integers, Sequences, FiniteSets, TLC

VARIABLES
    pc,        \* position of the current call: "ready", intermediate, "done"
    data,      \* argument of extract_gps_from_exifread
    result,    \* its outcome: [ok, v]
    kTags,     \* _find_key: the mapping
    kCands,    \* _find_key: the candidate spellings, in preference order
    kFound,    \* _find_key (module level) outcome
    kFoundIn,  \* _find_key (inline copy of the extractor) outcome
    dValue,    \* _parse_dms / _dms_to_decimal: the raw DMS value
    dParsed,   \* _parse_dms outcome
    dDec,      \* _dms_to_decimal outcome for each reference of RefPool
    image,     \* compress_image_and_extract_metadata: what the codec reports
    exif,      \* ... what extract_exif_with_exifread returned
    location,  \* ... the coordinate it extracted (or None)
    metadata,  \* ... the metadata container it returned
    gpsArg,    \* reverse_geocode_from_gps: first argument
    lonArg,    \* reverse_geocode_from_gps: second argument
    geoCalls,  \* (lat, lon) pairs handed to reverse_geocode_from_latlon
    geoRet     \* reverse_geocode_from_gps outcome

vars == <<pc, data, result, kTags, kCands, kFound, kFoundIn, dValue, dParsed,
          dDec, image, exif, location, metadata, gpsArg, lonArg, geoCalls, geoRet>>

----------------------------------------------------------------------------
(* Unicode tables of the interpreter (Unicode 14.0.0). A table is one flat
   tuple, its rows one after the other. *)

\* str.lower of one character above U+007F, where it is one other character: rows
\* first, last, step, offset, for the characters first, first + step, ... last,
\* the lower case being the character plus offset
LowerRuns ==
    <<192, 214, 1, 32,  216, 222, 1, 32,  256, 302, 2, 1,  306, 310, 2, 1,  313, 327, 2, 1,  330, 374, 2, 1,
      376, 376, 1, -121,  377, 381, 2, 1,  385, 385, 1, 210,  386, 388, 2, 1,  390, 390, 1, 206,  391, 391, 1, 1,
      393, 394, 1, 205,  395, 395, 1, 1,  398, 398, 1, 79,  399, 399, 1, 202,  400, 400, 1, 203,  401, 401, 1, 1,
      403, 403, 1, 205,  404, 404, 1, 207,  406, 406, 1, 211,  407, 407, 1, 209,  408, 408, 1, 1,  412, 412, 1, 211,
      413, 413, 1, 213,  415, 415, 1, 214,  416, 420, 2, 1,  422, 422, 1, 218,  423, 423, 1, 1,  425, 425, 1, 218,
      428, 428, 1, 1,  430, 430, 1, 218,  431, 431, 1, 1,  433, 434, 1, 217,  435, 437, 2, 1,  439, 439, 1, 219,
      440, 440, 1, 1,  444, 444, 1, 1,  452, 452, 1, 2,  453, 453, 1, 1,  455, 455, 1, 2,  456, 456, 1, 1,
      458, 458, 1, 2,  459, 475, 2, 1,  478, 494, 2, 1,  497, 497, 1, 2,  498, 500, 2, 1,  502, 502, 1, -97,
      503, 503, 1, -56,  504, 542, 2, 1,  544, 544, 1, -130,  546, 562, 2, 1,  570, 570, 1, 10795,  571, 571, 1, 1,
      573, 573, 1, -163,  574, 574, 1, 10792,  577, 577, 1, 1,  579, 579, 1, -195,  580, 580, 1, 69,  581, 581, 1, 71,
      582, 590, 2, 1,  880, 882, 2, 1,  886, 886, 1, 1,  895, 895, 1, 116,  902, 902, 1, 38,  904, 906, 1, 37,
      908, 908, 1, 64,  910, 911, 1, 63,  913, 929, 1, 32,  931, 939, 1, 32,  975, 975, 1, 8,  984, 1006, 2, 1,
      1012, 1012, 1, -60,  1015, 1015, 1, 1,  1017, 1017, 1, -7,  1018, 1018, 1, 1,  1021, 1023, 1, -130,  1024, 1039, 1, 80,
      1040, 1071, 1, 32,  1120, 1152, 2, 1,  1162, 1214, 2, 1,  1216, 1216, 1, 15,  1217, 1229, 2, 1,  1232, 1326, 2, 1,
      1329, 1366, 1, 48,  4256, 4293, 1, 7264,  4295, 4295, 1, 7264,  4301, 4301, 1, 7264,  5024, 5103, 1, 38864,  5104, 5109, 1, 8,
      7312, 7354, 1, -3008,  7357, 7359, 1, -3008,  7680, 7828, 2, 1,  7838, 7838, 1, -7615,  7840, 7934, 2, 1,  7944, 7951, 1, -8,
      7960, 7965, 1, -8,  7976, 7983, 1, -8,  7992, 7999, 1, -8,  8008, 8013, 1, -8,  8025, 8031, 2, -8,  8040, 8047, 1, -8,
      8072, 8079, 1, -8,  8088, 8095, 1, -8,  8104, 8111, 1, -8,  8120, 8121, 1, -8,  8122, 8123, 1, -74,  8124, 8124, 1, -9,
      8136, 8139, 1, -86,  8140, 8140, 1, -9,  8152, 8153, 1, -8,  8154, 8155, 1, -100,  8168, 8169, 1, -8,  8170, 8171, 1, -112,
      8172, 8172, 1, -7,  8184, 8185, 1, -128,  8186, 8187, 1, -126,  8188, 8188, 1, -9,  8486, 8486, 1, -7517,  8490, 8490, 1, -8383,
      8491, 8491, 1, -8262,  8498, 8498, 1, 28,  8544, 8559, 1, 16,  8579, 8579, 1, 1,  9398, 9423, 1, 26,  11264, 11311, 1, 48,
      11360, 11360, 1, 1,  11362, 11362, 1, -10743,  11363, 11363, 1, -3814,  11364, 11364, 1, -10727,  11367, 11371, 2, 1,  11373, 11373, 1, -10780,
      11374, 11374, 1, -10749,  11375, 11375, 1, -10783,  11376, 11376, 1, -10782,  11378, 11378, 1, 1,  11381, 11381, 1, 1,  11390, 11391, 1, -10815,
      11392, 11490, 2, 1,  11499, 11501, 2, 1,  11506, 11506, 1, 1,  42560, 42604, 2, 1,  42624, 42650, 2, 1,  42786, 42798, 2, 1,
      42802, 42862, 2, 1,  42873, 42875, 2, 1,  42877, 42877, 1, -35332,  42878, 42886, 2, 1,  42891, 42891, 1, 1,  42893, 42893, 1, -42280,
      42896, 42898, 2, 1,  42902, 42920, 2, 1,  42922, 42922, 1, -42308,  42923, 42923, 1, -42319,  42924, 42924, 1, -42315,  42925, 42925, 1, -42305,
      42926, 42926, 1, -42308,  42928, 42928, 1, -42258,  42929, 42929, 1, -42282,  42930, 42930, 1, -42261,  42931, 42931, 1, 928,  42932, 42946, 2, 1,
      42948, 42948, 1, -48,  42949, 42949, 1, -42307,  42950, 42950, 1, -35384,  42951, 42953, 2, 1,  42960, 42960, 1, 1,  42966, 42968, 2, 1,
      42997, 42997, 1, 1,  65313, 65338, 1, 32,  66560, 66599, 1, 40,  66736, 66771, 1, 40,  66928, 66964, 2, 39,  66929, 66937, 2, 39,
      66941, 66953, 2, 39,  66957, 66961, 2, 39,  66965, 66965, 1, 39,  68736, 68786, 1, 64,  71840, 71871, 1, 32,  93760, 93791, 1, 32,
      125184, 125217, 1, 34>>

\* str.upper of one character above U+007F, where it is one other character: rows
\* first, last, step, offset
UpperRuns ==
    <<181, 181, 1, 743,  224, 246, 1, -32,  248, 254, 1, -32,  255, 255, 1, 121,  257, 303, 2, -1,  305, 305, 1, -232,
      307, 311, 2, -1,  314, 328, 2, -1,  331, 375, 2, -1,  378, 382, 2, -1,  383, 383, 1, -300,  384, 384, 1, 195,
      387, 389, 2, -1,  392, 392, 1, -1,  396, 396, 1, -1,  402, 402, 1, -1,  405, 405, 1, 97,  409, 409, 1, -1,
      410, 410, 1, 163,  414, 414, 1, 130,  417, 421, 2, -1,  424, 424, 1, -1,  429, 429, 1, -1,  432, 432, 1, -1,
      436, 438, 2, -1,  441, 441, 1, -1,  445, 445, 1, -1,  447, 447, 1, 56,  453, 453, 1, -1,  454, 454, 1, -2,
      456, 456, 1, -1,  457, 457, 1, -2,  459, 459, 1, -1,  460, 460, 1, -2,  462, 476, 2, -1,  477, 477, 1, -79,
      479, 495, 2, -1,  498, 498, 1, -1,  499, 499, 1, -2,  501, 501, 1, -1,  505, 543, 2, -1,  547, 563, 2, -1,
      572, 572, 1, -1,  575, 576, 1, 10815,  578, 578, 1, -1,  583, 591, 2, -1,  592, 592, 1, 10783,  593, 593, 1, 10780,
      594, 594, 1, 10782,  595, 595, 1, -210,  596, 596, 1, -206,  598, 599, 1, -205,  601, 601, 1, -202,  603, 603, 1, -203,
      604, 604, 1, 42319,  608, 608, 1, -205,  609, 609, 1, 42315,  611, 611, 1, -207,  613, 613, 1, 42280,  614, 614, 1, 42308,
      616, 616, 1, -209,  617, 617, 1, -211,  618, 618, 1, 42308,  619, 619, 1, 10743,  620, 620, 1, 42305,  623, 623, 1, -211,
      625, 625, 1, 10749,  626, 626, 1, -213,  629, 629, 1, -214,  637, 637, 1, 10727,  640, 640, 1, -218,  642, 642, 1, 42307,
      643, 643, 1, -218,  647, 647, 1, 42282,  648, 648, 1, -218,  649, 649, 1, -69,  650, 651, 1, -217,  652, 652, 1, -71,
      658, 658, 1, -219,  669, 669, 1, 42261,  670, 670, 1, 42258,  837, 837, 1, 84,  881, 883, 2, -1,  887, 887, 1, -1,
      891, 893, 1, 130,  940, 940, 1, -38,  941, 943, 1, -37,  945, 961, 1, -32,  962, 962, 1, -31,  963, 971, 1, -32,
      972, 972, 1, -64,  973, 974, 1, -63,  976, 976, 1, -62,  977, 977, 1, -57,  981, 981, 1, -47,  982, 982, 1, -54,
      983, 983, 1, -8,  985, 1007, 2, -1,  1008, 1008, 1, -86,  1009, 1009, 1, -80,  1010, 1010, 1, 7,  1011, 1011, 1, -116,
      1013, 1013, 1, -96,  1016, 1016, 1, -1,  1019, 1019, 1, -1,  1072, 1103, 1, -32,  1104, 1119, 1, -80,  1121, 1153, 2, -1,
      1163, 1215, 2, -1,  1218, 1230, 2, -1,  1231, 1231, 1, -15,  1233, 1327, 2, -1,  1377, 1414, 1, -48,  4304, 4346, 1, 3008,
      4349, 4351, 1, 3008,  5112, 5117, 1, -8,  7296, 7296, 1, -6254,  7297, 7297, 1, -6253,  7298, 7298, 1, -6244,  7299, 7300, 1, -6242,
      7301, 7301, 1, -6243,  7302, 7302, 1, -6236,  7303, 7303, 1, -6181,  7304, 7304, 1, 35266,  7545, 7545, 1, 35332,  7549, 7549, 1, 3814,
      7566, 7566, 1, 35384,  7681, 7829, 2, -1,  7835, 7835, 1, -59,  7841, 7935, 2, -1,  7936, 7943, 1, 8,  7952, 7957, 1, 8,
      7968, 7975, 1, 8,  7984, 7991, 1, 8,  8000, 8005, 1, 8,  8017, 8023, 2, 8,  8032, 8039, 1, 8,  8048, 8049, 1, 74,
      8050, 8053, 1, 86,  8054, 8055, 1, 100,  8056, 8057, 1, 128,  8058, 8059, 1, 112,  8060, 8061, 1, 126,  8112, 8113, 1, 8,
      8126, 8126, 1, -7205,  8144, 8145, 1, 8,  8160, 8161, 1, 8,  8165, 8165, 1, 7,  8526, 8526, 1, -28,  8560, 8575, 1, -16,
      8580, 8580, 1, -1,  9424, 9449, 1, -26,  11312, 11359, 1, -48,  11361, 11361, 1, -1,  11365, 11365, 1, -10795,  11366, 11366, 1, -10792,
      11368, 11372, 2, -1,  11379, 11379, 1, -1,  11382, 11382, 1, -1,  11393, 11491, 2, -1,  11500, 11502, 2, -1,  11507, 11507, 1, -1,
      11520, 11557, 1, -7264,  11559, 11559, 1, -7264,  11565, 11565, 1, -7264,  42561, 42605, 2, -1,  42625, 42651, 2, -1,  42787, 42799, 2, -1,
      42803, 42863, 2, -1,  42874, 42876, 2, -1,  42879, 42887, 2, -1,  42892, 42892, 1, -1,  42897, 42899, 2, -1,  42900, 42900, 1, 48,
      42903, 42921, 2, -1,  42933, 42947, 2, -1,  42952, 42954, 2, -1,  42961, 42961, 1, -1,  42967, 42969, 2, -1,  42998, 42998, 1, -1,
      43859, 43859, 1, -928,  43888, 43967, 1, -38864,  65345, 65370, 1, -32,  66600, 66639, 1, -40,  66776, 66811, 1, -40,  66967, 67003, 2, -39,
      66968, 66976, 2, -39,  66980, 66992, 2, -39,  66996, 67000, 2, -39,  67004, 67004, 1, -39,  68800, 68850, 1, -64,  71872, 71903, 1, -32,
      93792, 93823, 1, -32,  125218, 125251, 1, -34>>

\* str.upper of one character, where it is several: rows character, then the two
\* or three characters of its upper case, 0 for no third
UpperSpecial ==
    <<223, 83, 83, 0,  329, 700, 78, 0,  496, 74, 780, 0,  912, 921, 776, 769,  944, 933, 776, 769,  1415, 1333, 1362, 0,
      7830, 72, 817, 0,  7831, 84, 776, 0,  7832, 87, 778, 0,  7833, 89, 778, 0,  7834, 65, 702, 0,  8016, 933, 787, 0,
      8018, 933, 787, 768,  8020, 933, 787, 769,  8022, 933, 787, 834,  8064, 7944, 921, 0,  8065, 7945, 921, 0,  8066, 7946, 921, 0,
      8067, 7947, 921, 0,  8068, 7948, 921, 0,  8069, 7949, 921, 0,  8070, 7950, 921, 0,  8071, 7951, 921, 0,  8072, 7944, 921, 0,
      8073, 7945, 921, 0,  8074, 7946, 921, 0,  8075, 7947, 921, 0,  8076, 7948, 921, 0,  8077, 7949, 921, 0,  8078, 7950, 921, 0,
      8079, 7951, 921, 0,  8080, 7976, 921, 0,  8081, 7977, 921, 0,  8082, 7978, 921, 0,  8083, 7979, 921, 0,  8084, 7980, 921, 0,
      8085, 7981, 921, 0,  8086, 7982, 921, 0,  8087, 7983, 921, 0,  8088, 7976, 921, 0,  8089, 7977, 921, 0,  8090, 7978, 921, 0,
      8091, 7979, 921, 0,  8092, 7980, 921, 0,  8093, 7981, 921, 0,  8094, 7982, 921, 0,  8095, 7983, 921, 0,  8096, 8040, 921, 0,
      8097, 8041, 921, 0,  8098, 8042, 921, 0,  8099, 8043, 921, 0,  8100, 8044, 921, 0,  8101, 8045, 921, 0,  8102, 8046, 921, 0,
      8103, 8047, 921, 0,  8104, 8040, 921, 0,  8105, 8041, 921, 0,  8106, 8042, 921, 0,  8107, 8043, 921, 0,  8108, 8044, 921, 0,
      8109, 8045, 921, 0,  8110, 8046, 921, 0,  8111, 8047, 921, 0,  8114, 8122, 921, 0,  8115, 913, 921, 0,  8116, 902, 921, 0,
      8118, 913, 834, 0,  8119, 913, 834, 921,  8124, 913, 921, 0,  8130, 8138, 921, 0,  8131, 919, 921, 0,  8132, 905, 921, 0,
      8134, 919, 834, 0,  8135, 919, 834, 921,  8140, 919, 921, 0,  8146, 921, 776, 768,  8147, 921, 776, 769,  8150, 921, 834, 0,
      8151, 921, 776, 834,  8162, 933, 776, 768,  8163, 933, 776, 769,  8164, 929, 787, 0,  8166, 933, 834, 0,  8167, 933, 776, 834,
      8178, 8186, 921, 0,  8179, 937, 921, 0,  8180, 911, 921, 0,  8182, 937, 834, 0,  8183, 937, 834, 921,  8188, 937, 921, 0,
      64256, 70, 70, 0,  64257, 70, 73, 0,  64258, 70, 76, 0,  64259, 70, 70, 73,  64260, 70, 70, 76,  64261, 83, 84, 0,
      64262, 83, 84, 0,  64275, 1348, 1350, 0,  64276, 1348, 1333, 0,  64277, 1348, 1339, 0,  64278, 1358, 1350, 0,  64279, 1348, 1341, 0>>

\* the case-ignorable characters, skipped around a capital sigma: rows first, last
CaseIgnorable ==
    <<39, 39,  46, 46,  58, 58,  94, 94,  96, 96,  168, 168,  173, 173,  175, 175,
      180, 180,  183, 184,  688, 879,  884, 885,  890, 890,  900, 901,  903, 903,  1155, 1161,
      1369, 1369,  1375, 1375,  1425, 1469,  1471, 1471,  1473, 1474,  1476, 1477,  1479, 1479,  1524, 1524,
      1536, 1541,  1552, 1562,  1564, 1564,  1600, 1600,  1611, 1631,  1648, 1648,  1750, 1757,  1759, 1768,
      1770, 1773,  1807, 1807,  1809, 1809,  1840, 1866,  1958, 1968,  2027, 2037,  2042, 2042,  2045, 2045,
      2070, 2093,  2137, 2139,  2184, 2184,  2192, 2193,  2200, 2207,  2249, 2306,  2362, 2362,  2364, 2364,
      2369, 2376,  2381, 2381,  2385, 2391,  2402, 2403,  2417, 2417,  2433, 2433,  2492, 2492,  2497, 2500,
      2509, 2509,  2530, 2531,  2558, 2558,  2561, 2562,  2620, 2620,  2625, 2626,  2631, 2632,  2635, 2637,
      2641, 2641,  2672, 2673,  2677, 2677,  2689, 2690,  2748, 2748,  2753, 2757,  2759, 2760,  2765, 2765,
      2786, 2787,  2810, 2815,  2817, 2817,  2876, 2876,  2879, 2879,  2881, 2884,  2893, 2893,  2901, 2902,
      2914, 2915,  2946, 2946,  3008, 3008,  3021, 3021,  3072, 3072,  3076, 3076,  3132, 3132,  3134, 3136,
      3142, 3144,  3146, 3149,  3157, 3158,  3170, 3171,  3201, 3201,  3260, 3260,  3263, 3263,  3270, 3270,
      3276, 3277,  3298, 3299,  3328, 3329,  3387, 3388,  3393, 3396,  3405, 3405,  3426, 3427,  3457, 3457,
      3530, 3530,  3538, 3540,  3542, 3542,  3633, 3633,  3636, 3642,  3654, 3662,  3761, 3761,  3764, 3772,
      3782, 3782,  3784, 3789,  3864, 3865,  3893, 3893,  3895, 3895,  3897, 3897,  3953, 3966,  3968, 3972,
      3974, 3975,  3981, 3991,  3993, 4028,  4038, 4038,  4141, 4144,  4146, 4151,  4153, 4154,  4157, 4158,
      4184, 4185,  4190, 4192,  4209, 4212,  4226, 4226,  4229, 4230,  4237, 4237,  4253, 4253,  4348, 4348,
      4957, 4959,  5906, 5908,  5938, 5939,  5970, 5971,  6002, 6003,  6068, 6069,  6071, 6077,  6086, 6086,
      6089, 6099,  6103, 6103,  6109, 6109,  6155, 6159,  6211, 6211,  6277, 6278,  6313, 6313,  6432, 6434,
      6439, 6440,  6450, 6450,  6457, 6459,  6679, 6680,  6683, 6683,  6742, 6742,  6744, 6750,  6752, 6752,
      6754, 6754,  6757, 6764,  6771, 6780,  6783, 6783,  6823, 6823,  6832, 6862,  6912, 6915,  6964, 6964,
      6966, 6970,  6972, 6972,  6978, 6978,  7019, 7027,  7040, 7041,  7074, 7077,  7080, 7081,  7083, 7085,
      7142, 7142,  7144, 7145,  7149, 7149,  7151, 7153,  7212, 7219,  7222, 7223,  7288, 7293,  7376, 7378,
      7380, 7392,  7394, 7400,  7405, 7405,  7412, 7412,  7416, 7417,  7468, 7530,  7544, 7544,  7579, 7679,
      8125, 8125,  8127, 8129,  8141, 8143,  8157, 8159,  8173, 8175,  8189, 8190,  8203, 8207,  8216, 8217,
      8228, 8228,  8231, 8231,  8234, 8238,  8288, 8292,  8294, 8303,  8305, 8305,  8319, 8319,  8336, 8348,
      8400, 8432,  11388, 11389,  11503, 11505,  11631, 11631,  11647, 11647,  11744, 11775,  11823, 11823,  12293, 12293,
      12330, 12333,  12337, 12341,  12347, 12347,  12441, 12446,  12540, 12542,  40981, 40981,  42232, 42237,  42508, 42508,
      42607, 42610,  42612, 42621,  42623, 42623,  42652, 42655,  42736, 42737,  42752, 42785,  42864, 42864,  42888, 42890,
      42994, 42996,  43000, 43001,  43010, 43010,  43014, 43014,  43019, 43019,  43045, 43046,  43052, 43052,  43204, 43205,
      43232, 43249,  43263, 43263,  43302, 43309,  43335, 43345,  43392, 43394,  43443, 43443,  43446, 43449,  43452, 43453,
      43471, 43471,  43493, 43494,  43561, 43566,  43569, 43570,  43573, 43574,  43587, 43587,  43596, 43596,  43632, 43632,
      43644, 43644,  43696, 43696,  43698, 43700,  43703, 43704,  43710, 43711,  43713, 43713,  43741, 43741,  43756, 43757,
      43763, 43764,  43766, 43766,  43867, 43871,  43881, 43883,  44005, 44005,  44008, 44008,  44013, 44013,  64286, 64286,
      64434, 64450,  65024, 65039,  65043, 65043,  65056, 65071,  65106, 65106,  65109, 65109,  65279, 65279,  65287, 65287,
      65294, 65294,  65306, 65306,  65342, 65342,  65344, 65344,  65392, 65392,  65438, 65439,  65507, 65507,  65529, 65531,
      66045, 66045,  66272, 66272,  66422, 66426,  67456, 67461,  67463, 67504,  67506, 67514,  68097, 68099,  68101, 68102,
      68108, 68111,  68152, 68154,  68159, 68159,  68325, 68326,  68900, 68903,  69291, 69292,  69446, 69456,  69506, 69509,
      69633, 69633,  69688, 69702,  69744, 69744,  69747, 69748,  69759, 69761,  69811, 69814,  69817, 69818,  69821, 69821,
      69826, 69826,  69837, 69837,  69888, 69890,  69927, 69931,  69933, 69940,  70003, 70003,  70016, 70017,  70070, 70078,
      70089, 70092,  70095, 70095,  70191, 70193,  70196, 70196,  70198, 70199,  70206, 70206,  70367, 70367,  70371, 70378,
      70400, 70401,  70459, 70460,  70464, 70464,  70502, 70508,  70512, 70516,  70712, 70719,  70722, 70724,  70726, 70726,
      70750, 70750,  70835, 70840,  70842, 70842,  70847, 70848,  70850, 70851,  71090, 71093,  71100, 71101,  71103, 71104,
      71132, 71133,  71219, 71226,  71229, 71229,  71231, 71232,  71339, 71339,  71341, 71341,  71344, 71349,  71351, 71351,
      71453, 71455,  71458, 71461,  71463, 71467,  71727, 71735,  71737, 71738,  71995, 71996,  71998, 71998,  72003, 72003,
      72148, 72151,  72154, 72155,  72160, 72160,  72193, 72202,  72243, 72248,  72251, 72254,  72263, 72263,  72273, 72278,
      72281, 72283,  72330, 72342,  72344, 72345,  72752, 72758,  72760, 72765,  72767, 72767,  72850, 72871,  72874, 72880,
      72882, 72883,  72885, 72886,  73009, 73014,  73018, 73018,  73020, 73021,  73023, 73029,  73031, 73031,  73104, 73105,
      73109, 73109,  73111, 73111,  73459, 73460,  78896, 78904,  92912, 92916,  92976, 92982,  92992, 92995,  94031, 94031,
      94095, 94111,  94176, 94177,  94179, 94180,  110576, 110579,  110581, 110587,  110589, 110590,  113821, 113822,  113824, 113827,
      118528, 118573,  118576, 118598,  119143, 119145,  119155, 119170,  119173, 119179,  119210, 119213,  119362, 119364,  121344, 121398,
      121403, 121452,  121461, 121461,  121476, 121476,  121499, 121503,  121505, 121519,  122880, 122886,  122888, 122904,  122907, 122913,
      122915, 122916,  122918, 122922,  123184, 123197,  123566, 123566,  123628, 123631,  125136, 125142,  125252, 125259,  127995, 127999,
      917505, 917505,  917536, 917631,  917760, 917999>>

\* the cased characters that are not case-ignorable: rows first, last
CasedRuns ==
    <<65, 90,  97, 122,  170, 170,  181, 181,  186, 186,  192, 214,  216, 246,  248, 442,
      444, 447,  452, 659,  661, 687,  880, 883,  886, 887,  891, 893,  895, 895,  902, 902,
      904, 906,  908, 908,  910, 929,  931, 1013,  1015, 1153,  1162, 1327,  1329, 1366,  1376, 1416,
      4256, 4293,  4295, 4295,  4301, 4301,  4304, 4346,  4349, 4351,  5024, 5109,  5112, 5117,  7296, 7304,
      7312, 7354,  7357, 7359,  7424, 7467,  7531, 7543,  7545, 7578,  7680, 7957,  7960, 7965,  7968, 8005,
      8008, 8013,  8016, 8023,  8025, 8025,  8027, 8027,  8029, 8029,  8031, 8061,  8064, 8116,  8118, 8124,
      8126, 8126,  8130, 8132,  8134, 8140,  8144, 8147,  8150, 8155,  8160, 8172,  8178, 8180,  8182, 8188,
      8450, 8450,  8455, 8455,  8458, 8467,  8469, 8469,  8473, 8477,  8484, 8484,  8486, 8486,  8488, 8488,
      8490, 8493,  8495, 8500,  8505, 8505,  8508, 8511,  8517, 8521,  8526, 8526,  8544, 8575,  8579, 8580,
      9398, 9449,  11264, 11387,  11390, 11492,  11499, 11502,  11506, 11507,  11520, 11557,  11559, 11559,  11565, 11565,
      42560, 42605,  42624, 42651,  42786, 42863,  42865, 42887,  42891, 42894,  42896, 42954,  42960, 42961,  42963, 42963,
      42965, 42969,  42997, 42998,  43002, 43002,  43824, 43866,  43872, 43880,  43888, 43967,  64256, 64262,  64275, 64279,
      65313, 65338,  65345, 65370,  66560, 66639,  66736, 66771,  66776, 66811,  66928, 66938,  66940, 66954,  66956, 66962,
      66964, 66965,  66967, 66977,  66979, 66993,  66995, 67001,  67003, 67004,  68736, 68786,  68800, 68850,  71840, 71903,
      93760, 93823,  119808, 119892,  119894, 119964,  119966, 119967,  119970, 119970,  119973, 119974,  119977, 119980,  119982, 119993,
      119995, 119995,  119997, 120003,  120005, 120069,  120071, 120074,  120077, 120084,  120086, 120092,  120094, 120121,  120123, 120126,
      120128, 120132,  120134, 120134,  120138, 120144,  120146, 120485,  120488, 120512,  120514, 120538,  120540, 120570,  120572, 120596,
      120598, 120628,  120630, 120654,  120656, 120686,  120688, 120712,  120714, 120744,  120746, 120770,  120772, 120779,  122624, 122633,
      122635, 122654,  125184, 125251,  127280, 127305,  127312, 127337,  127344, 127369>>

\* the characters str.isprintable rejects, which repr() escapes: rows first, last
NonPrintableRuns ==
    <<0, 31,  127, 160,  173, 173,  888, 889,  896, 899,  907, 907,  909, 909,  930, 930,
      1328, 1328,  1367, 1368,  1419, 1420,  1424, 1424,  1480, 1487,  1515, 1518,  1525, 1541,  1564, 1564,
      1757, 1757,  1806, 1807,  1867, 1868,  1970, 1983,  2043, 2044,  2094, 2095,  2111, 2111,  2140, 2141,
      2143, 2143,  2155, 2159,  2191, 2199,  2274, 2274,  2436, 2436,  2445, 2446,  2449, 2450,  2473, 2473,
      2481, 2481,  2483, 2485,  2490, 2491,  2501, 2502,  2505, 2506,  2511, 2518,  2520, 2523,  2526, 2526,
      2532, 2533,  2559, 2560,  2564, 2564,  2571, 2574,  2577, 2578,  2601, 2601,  2609, 2609,  2612, 2612,
      2615, 2615,  2618, 2619,  2621, 2621,  2627, 2630,  2633, 2634,  2638, 2640,  2642, 2648,  2653, 2653,
      2655, 2661,  2679, 2688,  2692, 2692,  2702, 2702,  2706, 2706,  2729, 2729,  2737, 2737,  2740, 2740,
      2746, 2747,  2758, 2758,  2762, 2762,  2766, 2767,  2769, 2783,  2788, 2789,  2802, 2808,  2816, 2816,
      2820, 2820,  2829, 2830,  2833, 2834,  2857, 2857,  2865, 2865,  2868, 2868,  2874, 2875,  2885, 2886,
      2889, 2890,  2894, 2900,  2904, 2907,  2910, 2910,  2916, 2917,  2936, 2945,  2948, 2948,  2955, 2957,
      2961, 2961,  2966, 2968,  2971, 2971,  2973, 2973,  2976, 2978,  2981, 2983,  2987, 2989,  3002, 3005,
      3011, 3013,  3017, 3017,  3022, 3023,  3025, 3030,  3032, 3045,  3067, 3071,  3085, 3085,  3089, 3089,
      3113, 3113,  3130, 3131,  3141, 3141,  3145, 3145,  3150, 3156,  3159, 3159,  3163, 3164,  3166, 3167,
      3172, 3173,  3184, 3190,  3213, 3213,  3217, 3217,  3241, 3241,  3252, 3252,  3258, 3259,  3269, 3269,
      3273, 3273,  3278, 3284,  3287, 3292,  3295, 3295,  3300, 3301,  3312, 3312,  3315, 3327,  3341, 3341,
      3345, 3345,  3397, 3397,  3401, 3401,  3408, 3411,  3428, 3429,  3456, 3456,  3460, 3460,  3479, 3481,
      3506, 3506,  3516, 3516,  3518, 3519,  3527, 3529,  3531, 3534,  3541, 3541,  3543, 3543,  3552, 3557,
      3568, 3569,  3573, 3584,  3643, 3646,  3676, 3712,  3715, 3715,  3717, 3717,  3723, 3723,  3748, 3748,
      3750, 3750,  3774, 3775,  3781, 3781,  3783, 3783,  3790, 3791,  3802, 3803,  3808, 3839,  3912, 3912,
      3949, 3952,  3992, 3992,  4029, 4029,  4045, 4045,  4059, 4095,  4294, 4294,  4296, 4300,  4302, 4303,
      4681, 4681,  4686, 4687,  4695, 4695,  4697, 4697,  4702, 4703,  4745, 4745,  4750, 4751,  4785, 4785,
      4790, 4791,  4799, 4799,  4801, 4801,  4806, 4807,  4823, 4823,  4881, 4881,  4886, 4887,  4955, 4956,
      4989, 4991,  5018, 5023,  5110, 5111,  5118, 5119,  5760, 5760,  5789, 5791,  5881, 5887,  5910, 5918,
      5943, 5951,  5972, 5983,  5997, 5997,  6001, 6001,  6004, 6015,  6110, 6111,  6122, 6127,  6138, 6143,
      6158, 6158,  6170, 6175,  6265, 6271,  6315, 6319,  6390, 6399,  6431, 6431,  6444, 6447,  6460, 6463,
      6465, 6467,  6510, 6511,  6517, 6527,  6572, 6575,  6602, 6607,  6619, 6621,  6684, 6685,  6751, 6751,
      6781, 6782,  6794, 6799,  6810, 6815,  6830, 6831,  6863, 6911,  6989, 6991,  7039, 7039,  7156, 7163,
      7224, 7226,  7242, 7244,  7305, 7311,  7355, 7356,  7368, 7375,  7419, 7423,  7958, 7959,  7966, 7967,
      8006, 8007,  8014, 8015,  8024, 8024,  8026, 8026,  8028, 8028,  8030, 8030,  8062, 8063,  8117, 8117,
      8133, 8133,  8148, 8149,  8156, 8156,  8176, 8177,  8181, 8181,  8191, 8207,  8232, 8239,  8287, 8303,
      8306, 8307,  8335, 8335,  8349, 8351,  8385, 8399,  8433, 8447,  8588, 8591,  9255, 9279,  9291, 9311,
      11124, 11125,  11158, 11158,  11508, 11512,  11558, 11558,  11560, 11564,  11566, 11567,  11624, 11630,  11633, 11646,
      11671, 11679,  11687, 11687,  11695, 11695,  11703, 11703,  11711, 11711,  11719, 11719,  11727, 11727,  11735, 11735,
      11743, 11743,  11870, 11903,  11930, 11930,  12020, 12031,  12246, 12271,  12284, 12288,  12352, 12352,  12439, 12440,
      12544, 12548,  12592, 12592,  12687, 12687,  12772, 12783,  12831, 12831,  42125, 42127,  42183, 42191,  42540, 42559,
      42744, 42751,  42955, 42959,  42962, 42962,  42964, 42964,  42970, 42993,  43053, 43055,  43066, 43071,  43128, 43135,
      43206, 43213,  43226, 43231,  43348, 43358,  43389, 43391,  43470, 43470,  43482, 43485,  43519, 43519,  43575, 43583,
      43598, 43599,  43610, 43611,  43715, 43738,  43767, 43776,  43783, 43784,  43791, 43792,  43799, 43807,  43815, 43815,
      43823, 43823,  43884, 43887,  44014, 44015,  44026, 44031,  55204, 55215,  55239, 55242,  55292, 63743,  64110, 64111,
      64218, 64255,  64263, 64274,  64280, 64284,  64311, 64311,  64317, 64317,  64319, 64319,  64322, 64322,  64325, 64325,
      64451, 64466,  64912, 64913,  64968, 64974,  64976, 65007,  65050, 65055,  65107, 65107,  65127, 65127,  65132, 65135,
      65141, 65141,  65277, 65280,  65471, 65473,  65480, 65481,  65488, 65489,  65496, 65497,  65501, 65503,  65511, 65511,
      65519, 65531,  65534, 65535,  65548, 65548,  65575, 65575,  65595, 65595,  65598, 65598,  65614, 65615,  65630, 65663,
      65787, 65791,  65795, 65798,  65844, 65846,  65935, 65935,  65949, 65951,  65953, 65999,  66046, 66175,  66205, 66207,
      66257, 66271,  66300, 66303,  66340, 66348,  66379, 66383,  66427, 66431,  66462, 66462,  66500, 66503,  66518, 66559,
      66718, 66719,  66730, 66735,  66772, 66775,  66812, 66815,  66856, 66863,  66916, 66926,  66939, 66939,  66955, 66955,
      66963, 66963,  66966, 66966,  66978, 66978,  66994, 66994,  67002, 67002,  67005, 67071,  67383, 67391,  67414, 67423,
      67432, 67455,  67462, 67462,  67505, 67505,  67515, 67583,  67590, 67591,  67593, 67593,  67638, 67638,  67641, 67643,
      67645, 67646,  67670, 67670,  67743, 67750,  67760, 67807,  67827, 67827,  67830, 67834,  67868, 67870,  67898, 67902,
      67904, 67967,  68024, 68027,  68048, 68049,  68100, 68100,  68103, 68107,  68116, 68116,  68120, 68120,  68150, 68151,
      68155, 68158,  68169, 68175,  68185, 68191,  68256, 68287,  68327, 68330,  68343, 68351,  68406, 68408,  68438, 68439,
      68467, 68471,  68498, 68504,  68509, 68520,  68528, 68607,  68681, 68735,  68787, 68799,  68851, 68857,  68904, 68911,
      68922, 69215,  69247, 69247,  69290, 69290,  69294, 69295,  69298, 69375,  69416, 69423,  69466, 69487,  69514, 69551,
      69580, 69599,  69623, 69631,  69710, 69713,  69750, 69758,  69821, 69821,  69827, 69839,  69865, 69871,  69882, 69887,
      69941, 69941,  69960, 69967,  70007, 70015,  70112, 70112,  70133, 70143,  70162, 70162,  70207, 70271,  70279, 70279,
      70281, 70281,  70286, 70286,  70302, 70302,  70314, 70319,  70379, 70383,  70394, 70399,  70404, 70404,  70413, 70414,
      70417, 70418,  70441, 70441,  70449, 70449,  70452, 70452,  70458, 70458,  70469, 70470,  70473, 70474,  70478, 70479,
      70481, 70486,  70488, 70492,  70500, 70501,  70509, 70511,  70517, 70655,  70748, 70748,  70754, 70783,  70856, 70863,
      70874, 71039,  71094, 71095,  71134, 71167,  71237, 71247,  71258, 71263,  71277, 71295,  71354, 71359,  71370, 71423,
      71451, 71452,  71468, 71471,  71495, 71679,  71740, 71839,  71923, 71934,  71943, 71944,  71946, 71947,  71956, 71956,
      71959, 71959,  71990, 71990,  71993, 71994,  72007, 72015,  72026, 72095,  72104, 72105,  72152, 72153,  72165, 72191,
      72264, 72271,  72355, 72367,  72441, 72703,  72713, 72713,  72759, 72759,  72774, 72783,  72813, 72815,  72848, 72849,
      72872, 72872,  72887, 72959,  72967, 72967,  72970, 72970,  73015, 73017,  73019, 73019,  73022, 73022,  73032, 73039,
      73050, 73055,  73062, 73062,  73065, 73065,  73103, 73103,  73106, 73106,  73113, 73119,  73130, 73439,  73465, 73647,
      73649, 73663,  73714, 73726,  74650, 74751,  74863, 74863,  74869, 74879,  75076, 77711,  77811, 77823,  78895, 82943,
      83527, 92159,  92729, 92735,  92767, 92767,  92778, 92781,  92863, 92863,  92874, 92879,  92910, 92911,  92918, 92927,
      92998, 93007,  93018, 93018,  93026, 93026,  93048, 93052,  93072, 93759,  93851, 93951,  94027, 94030,  94088, 94094,
      94112, 94175,  94181, 94191,  94194, 94207,  100344, 100351,  101590, 101631,  101641, 110575,  110580, 110580,  110588, 110588,
      110591, 110591,  110883, 110927,  110931, 110947,  110952, 110959,  111356, 113663,  113771, 113775,  113789, 113791,  113801, 113807,
      113818, 113819,  113824, 118527,  118574, 118575,  118599, 118607,  118724, 118783,  119030, 119039,  119079, 119080,  119155, 119162,
      119275, 119295,  119366, 119519,  119540, 119551,  119639, 119647,  119673, 119807,  119893, 119893,  119965, 119965,  119968, 119969,
      119971, 119972,  119975, 119976,  119981, 119981,  119994, 119994,  119996, 119996,  120004, 120004,  120070, 120070,  120075, 120076,
      120085, 120085,  120093, 120093,  120122, 120122,  120127, 120127,  120133, 120133,  120135, 120137,  120145, 120145,  120486, 120487,
      120780, 120781,  121484, 121498,  121504, 121504,  121520, 122623,  122655, 122879,  122887, 122887,  122905, 122906,  122914, 122914,
      122917, 122917,  122923, 123135,  123181, 123183,  123198, 123199,  123210, 123213,  123216, 123535,  123567, 123583,  123642, 123646,
      123648, 124895,  124903, 124903,  124908, 124908,  124911, 124911,  124927, 124927,  125125, 125126,  125143, 125183,  125260, 125263,
      125274, 125277,  125280, 126064,  126133, 126208,  126270, 126463,  126468, 126468,  126496, 126496,  126499, 126499,  126501, 126502,
      126504, 126504,  126515, 126515,  126520, 126520,  126522, 126522,  126524, 126529,  126531, 126534,  126536, 126536,  126538, 126538,
      126540, 126540,  126544, 126544,  126547, 126547,  126549, 126550,  126552, 126552,  126554, 126554,  126556, 126556,  126558, 126558,
      126560, 126560,  126563, 126563,  126565, 126566,  126571, 126571,  126579, 126579,  126584, 126584,  126589, 126589,  126591, 126591,
      126602, 126602,  126620, 126624,  126628, 126628,  126634, 126634,  126652, 126703,  126706, 126975,  127020, 127023,  127124, 127135,
      127151, 127152,  127168, 127168,  127184, 127184,  127222, 127231,  127406, 127461,  127491, 127503,  127548, 127551,  127561, 127567,
      127570, 127583,  127590, 127743,  128728, 128732,  128749, 128751,  128765, 128767,  128884, 128895,  128985, 128991,  129004, 129007,
      129009, 129023,  129036, 129039,  129096, 129103,  129114, 129119,  129160, 129167,  129198, 129199,  129202, 129279,  129620, 129631,
      129646, 129647,  129653, 129655,  129661, 129663,  129671, 129679,  129709, 129711,  129723, 129727,  129734, 129743,  129754, 129759,
      129768, 129775,  129783, 129791,  129939, 129939,  129995, 130031,  130042, 131071,  173792, 173823,  177977, 177983,  178206, 178207,
      183970, 183983,  191457, 194559,  195102, 196607,  201547, 917759,  918000, 1114111>>

----------------------------------------------------------------------------
(* Characters and strings *)

\* the printable ASCII characters, U+0020 to U+007E in order; the grave accent
\* U+0060 cannot be written in a literal and is left empty
Printable ==
    <<" ", "!", "\"", "#", "$", "%", "&", "'", "(", ")", "*", "+", ",", "-", ".", "/",
      "0", "1", "2", "3", "4", "5", "6", "7", "8", "9", ":", ";", "<", "=", ">", "?",
      "@", "A", "B", "C", "D", "E", "F", "G", "H", "I", "J", "K", "L", "M", "N", "O",
      "P", "Q", "R", "S", "T", "U", "V", "W", "X", "Y", "Z", "[", "\\", "]", "^", "_",
      "", "a", "b", "c", "d", "e", "f", "g", "h", "i", "j", "k", "l", "m", "n", "o",
      "p", "q", "r", "s", "t", "u", "v", "w", "x", "y", "z", "{", "|", "}", "~">>

\* the code point of a printable ASCII character
Ord(ch) == 31 + CHOOSE k \in DOMAIN Printable : Printable[k] = ch

\* the code points of a literal
Text(lit) == [i \in 1..Len(lit) |-> Ord(SubSeq(lit, i, i))]

Range(f) == { f[i] : i \in DOMAIN f }

Min2(a, b) == IF a <= b THEN a ELSE b
Max2(a, b) == IF a >= b THEN a ELSE b

\* str.isspace: the code points matched by \s and removed by str.strip()
Whitespace ==
    {9, 10, 11, 12, 13, 28, 29, 30, 31, 32, 133, 160, 5760} \cup (8192..8202)
        \cup {8232, 8233, 8239, 8287, 12288}

\* the zero of every block of Unicode decimal digits (category Nd)
DigitZeros ==
    {48, 1632, 1776, 1984, 2406, 2534, 2662, 2790, 2918, 3046, 3174, 3302, 3430, 3558,
     3664, 3792, 3872, 4160, 4240, 6112, 6160, 6470, 6608, 6784, 6800, 6992, 7088, 7232,
     7248, 42528, 43216, 43264, 43472, 43504, 43600, 44016, 65296, 66720, 68912, 69734,
     69872, 69942, 70096, 70384, 70736, 70864, 71248, 71360, 71472, 71904, 72016, 72784,
     73040, 73120, 92768, 92864, 93008, 120782, 120792, 120802, 120812, 120822, 123200,
     123632, 125264, 130032}

\* the surrogate code points, which UTF-8 cannot encode
Surrogates == 55296..57343

\* the concatenation of the sequences ps[lo..hi], by halves
RECURSIVE FlattenIn(_, _, _)
FlattenIn(ps, lo, hi) ==
    IF lo > hi THEN <<>>
    ELSE IF lo = hi THEN ps[lo]
    ELSE FlattenIn(ps, lo, (lo + hi) \div 2) \o FlattenIn(ps, (lo + hi) \div 2 + 1, hi)
Flatten(ps) == FlattenIn(ps, 1, Len(ps))

\* membership of a character in a table of rows first, last
InRuns(c, runs) == \E i \in 1..(Len(runs) \div 2) : runs[2 * i - 1] <= c /\ c <= runs[2 * i]
\* the rows first, last, step, offset of a case table that hold a character
RunsOf(c, runs) ==
    { i \in 1..(Len(runs) \div 4) :
        runs[4 * i - 3] <= c /\ c <= runs[4 * i - 2] /\ (c - runs[4 * i - 3]) % runs[4 * i - 1] = 0 }
Shifted(c, runs, hits) == IF hits = {} THEN c ELSE c + runs[4 * (CHOOSE i \in hits : TRUE)]

\* a capital sigma at position i ends a word: a cased character precedes it and
\* none follows, case-ignorable characters being skipped on both sides
CasedBefore(s, i) ==
    \E j \in 1..(i - 1) :
        /\ ~InRuns(s[j], CaseIgnorable) /\ InRuns(s[j], CasedRuns)
        /\ \A k \in (j + 1)..(i - 1) : InRuns(s[k], CaseIgnorable)
CasedAfter(s, i) ==
    \E j \in (i + 1)..Len(s) :
        /\ ~InRuns(s[j], CaseIgnorable) /\ InRuns(s[j], CasedRuns)
        /\ \A k \in (i + 1)..(j - 1) : InRuns(s[k], CaseIgnorable)
FinalSigma(s, i) == CasedBefore(s, i) /\ ~CasedAfter(s, i)

\* str.lower of one character out of context
LowerChar(c) ==
    IF c < 128 THEN (IF c \in 65..90 THEN <<c + 32>> ELSE <<c>>)
    ELSE IF c = 304 THEN <<105, 775>>
    ELSE <<Shifted(c, LowerRuns, RunsOf(c, LowerRuns))>>
\* str.lower of the character at position i of s
LowerAt(s, i) ==
    IF s[i] = 931 THEN (IF FinalSigma(s, i) THEN <<962>> ELSE <<963>>) ELSE LowerChar(s[i])
Lower(s) == Flatten([i \in DOMAIN s |-> LowerAt(s, i)])

\* str.upper: one character may become up to three
UpperSpecialOf(c) == { i \in 1..(Len(UpperSpecial) \div 4) : UpperSpecial[4 * i - 3] = c }
UpperSpecialAt(i) ==
    <<UpperSpecial[4 * i - 2], UpperSpecial[4 * i - 1]>>
        \o (IF UpperSpecial[4 * i] = 0 THEN <<>> ELSE <<UpperSpecial[4 * i]>>)
UpperWide(c, special) ==
    IF special # {} THEN UpperSpecialAt(CHOOSE i \in special : TRUE)
    ELSE <<Shifted(c, UpperRuns, RunsOf(c, UpperRuns))>>
UpperChar(c) ==
    IF c < 128 THEN (IF c \in 97..122 THEN <<c - 32>> ELSE <<c>>)
    ELSE UpperWide(c, UpperSpecialOf(c))
Upper(s) == Flatten([i \in DOMAIN s |-> UpperChar(s[i])])

\* the part of s between its first and last character outside chars
StripKept(s, keep) ==
    IF keep = {} THEN <<>>
    ELSE SubSeq(s, CHOOSE i \in keep : \A j \in keep : i <= j,
                   CHOOSE i \in keep : \A j \in keep : j <= i)

\* str.strip(chars): drop leading and trailing characters of the set
Strip(s, chars) == StripKept(s, { i \in DOMAIN s : s[i] \notin chars })

\* re.sub(r"\s+", "", s)
RemoveWhitespace(s) == SelectSeq(s, LAMBDA c : c \notin Whitespace)

\* re.split(r"[,\s]+", s) without its empty pieces: the maximal runs of characters
\* that are neither a comma nor whitespace; a run starts after a separator (or at
\* the start) and ends before the next one (or at the end)
Separators == Whitespace \cup {44}
RunStarts(s) == { i \in DOMAIN s : s[i] \notin Separators /\ (i = 1 \/ s[i - 1] \in Separators) }
RunEnds(s) == { i \in DOMAIN s : s[i] \notin Separators /\ (i = Len(s) \/ s[i + 1] \in Separators) }
\* the k-th smallest member of a set of integers
Kth(S, k) == CHOOSE i \in S : Cardinality({ j \in S : j < i }) = k - 1
SplitRuns(s, starts, ends) ==
    [k \in 1..Cardinality(starts) |-> SubSeq(s, Kth(starts, k), Kth(ends, k))]
\* [p for p in re.split(r"[,\s]+", s) if p]
SplitCommaSpace(s) == SplitRuns(s, RunStarts(s), RunEnds(s))

\* sep.join(parts)
Join(parts, sep) ==
    Flatten([i \in 1..(2 * Len(parts) - 1) |-> IF i % 2 = 1 THEN parts[(i + 1) \div 2] ELSE sep])

\* the first position of character c in s, 0 when there is none
Find(s, c) == IF \E i \in DOMAIN s : s[i] = c
              THEN CHOOSE i \in DOMAIN s : s[i] = c /\ \A j \in 1..(i - 1) : s[j] # c
              ELSE 0

----------------------------------------------------------------------------
(* Natural numbers of any size: limbs in base 2^15, least significant first,
   no zero limb at the top. The operators avoid limb-by-limb recursion: a carry
   is found by looking back to the last limb that decides it. *)

Base == 2^15

Limb(a, i) == IF i \in 1..Len(a) THEN a[i] ELSE 0

\* the index of the highest limb other than zero, 0 when there is none
TopLimb(a) == CHOOSE n \in 0..Len(a) : (n = 0 \/ a[n] # 0) /\ \A i \in (n + 1)..Len(a) : a[i] = 0
\* drop zero limbs at the top
BigTrimTuple(a) == SubSeq(a, 1, TopLimb(a))
BigTrim(a) == BigTrimTuple(SubSeq(a, 1, Len(a)))

\* a machine integer 0 <= n < 2^31 as a natural
BigOfNat(n) == BigTrim(<<n % Base, (n \div Base) % Base, n \div (Base * Base)>>)

\* the value of a natural below 2^31
NatOfBig(a) == Limb(a, 1) + Base * Limb(a, 2) + Base * Base * Limb(a, 3)

\* a carry enters limb i of a + b: a lower limb overflows and every limb
\* between passes the carry on
AddCarry(a, b, i) ==
    \E j \in 1..(i - 1) :
        /\ Limb(a, j) + Limb(b, j) >= Base
        /\ \A k \in (j + 1)..(i - 1) : Limb(a, k) + Limb(b, k) = Base - 1
AddLimb(a, b, i) == (Limb(a, i) + Limb(b, i) + (IF AddCarry(a, b, i) THEN 1 ELSE 0)) % Base
BigAdd(a, b) == BigTrim([i \in 1..(Max2(Len(a), Len(b)) + 1) |-> AddLimb(a, b, i)])

\* a - b for a >= b
SubBorrow(a, b, i) ==
    \E j \in 1..(i - 1) :
        /\ a[j] < Limb(b, j)
        /\ \A k \in (j + 1)..(i - 1) : a[k] = Limb(b, k)
SubLimb(a, b, i) == (a[i] - Limb(b, i) - (IF SubBorrow(a, b, i) THEN 1 ELSE 0) + Base) % Base
BigSub(a, b) == BigTrim([i \in 1..Len(a) |-> SubLimb(a, b, i)])

\* a < b
BigLess(a, b) ==
    \/ Len(a) < Len(b)
    \/ Len(a) = Len(b) /\ \E i \in 1..Len(a) : a[i] < b[i] /\ \A k \in (i + 1)..Len(a) : a[k] = b[k]
\* -1, 0, 1 as a is below, equal to, above b
BigCmp(a, b) == IF a = b THEN 0 ELSE IF BigLess(a, b) THEN -1 ELSE 1

\* a * k for 0 <= k < 2^15: the low halves of the limb products plus the high
\* halves one limb up
MulLow(a, k) == [i \in 1..Len(a) |-> (a[i] * k) % Base]
MulHigh(a, k) == [i \in 1..(Len(a) + 1) |-> IF i = 1 THEN 0 ELSE (a[i - 1] * k) \div Base]
BigMulSmall(a, k) == BigAdd(SubSeq(MulLow(a, k), 1, Len(a)), SubSeq(MulHigh(a, k), 1, Len(a) + 1))

\* a * Base^n
BigShiftLimbs(a, n) == IF a = <<>> THEN <<>> ELSE [i \in 1..n |-> 0] \o a

\* a * b: the sum of the rows a * b[j] * Base^(j-1) for j from lo to hi, by halves
RECURSIVE BigMulRows(_, _, _, _)
BigMulRows(a, b, lo, hi) ==
    IF lo = hi THEN BigShiftLimbs(BigMulSmall(a, b[lo]), lo - 1)
    ELSE BigAdd(BigMulRows(a, b, lo, (lo + hi) \div 2), BigMulRows(a, b, (lo + hi) \div 2 + 1, hi))
BigMul(a, b) == IF a = <<>> \/ b = <<>> THEN <<>> ELSE BigMulRows(a, b, 1, Len(b))

\* a * 2^n
BigShl(a, n) == BigShiftLimbs(BigMulSmall(a, 2^(n % 15)), n \div 15)

\* a \div 2^(15 * q + r) for r < 15
ShrLimb(a, q, r, i) == Limb(a, i + q) \div 2^r + (Limb(a, i + q + 1) % 2^r) * 2^(15 - r)
BigShrBy(a, q, r) == BigTrim([i \in 1..(Len(a) - q) |-> ShrLimb(a, q, r, i)])
\* a \div 2^n
BigShr(a, n) == IF n \div 15 >= Len(a) THEN <<>> ELSE BigShrBy(a, n \div 15, n % 15)

\* number of bits of 0 <= x < 2^15
BitLenSmall(x) == CHOOSE n \in 0..15 : x < 2^n /\ (n = 0 \/ x >= 2^(n - 1))
\* number of bits of a
BitLen(a) == IF a = <<>> THEN 0 ELSE 15 * (Len(a) - 1) + BitLenSmall(a[Len(a)])

\* bit i of a, bit 0 the least significant
Bit(a, i) == (Limb(a, i \div 15 + 1) \div 2^(i % 15)) % 2

\* the n lowest bits of a are zero
LowBitsZero(a, n) ==
    /\ \A j \in 1..(n \div 15) : Limb(a, j) = 0
    /\ Limb(a, n \div 15 + 1) % 2^(n % 15) = 0

\* number of zero bits below the lowest one bit of x > 0
TrailingZerosSmall(x) == CHOOSE n \in 0..14 : x % 2^(n + 1) = 2^n
FirstNonZeroLimb(a) == CHOOSE j \in DOMAIN a : a[j] # 0 /\ \A i \in 1..(j - 1) : a[i] = 0
\* number of zero bits below the lowest one bit of a > 0
TrailingZeros(a) == 15 * (FirstNonZeroLimb(a) - 1) + TrailingZerosSmall(a[FirstNonZeroLimb(a)])

\* long division a \div d, limb by limb, for d whose top limb is at least 2^14:
\* each quotient limb is estimated from the two top limbs of the running
\* remainder and corrected downwards
DivEstimate(cur, d) ==
    Min2(Base - 1, (Limb(cur, Len(d) + 1) * Base + Limb(cur, Len(d))) \div d[Len(d)])
RECURSIVE DivFix(_, _, _)
DivFix(cur, d, qh) == IF BigLess(cur, BigMulSmall(d, qh)) THEN DivFix(cur, d, qh - 1) ELSE qh
DivPush(rest, qd) == [q |-> rest.q \o <<qd>>, exact |-> rest.exact]
RECURSIVE DivLimbs(_, _, _, _)
DivNext(a, d, i, cur, qd) == DivPush(DivLimbs(a, d, i - 1, BigSub(cur, BigMulSmall(d, qd))), qd)
\* a remainder below d gives the limb 0
DivDigit(a, d, i, cur) ==
    IF BigLess(cur, d) THEN DivPush(DivLimbs(a, d, i - 1, cur), 0)
    ELSE DivNext(a, d, i, cur, DivFix(cur, d, DivEstimate(cur, d)))
DivLimbs(a, d, i, r) ==
    IF i = 0 THEN [q |-> <<>>, exact |-> r = <<>>]
    ELSE DivDigit(a, d, i, BigTrim(<<a[i]>> \o r))
DivTrim(res) == [q |-> BigTrim(res.q), exact |-> res.exact]
\* the limbs of a above the lowest n
HighLimbs(a, n) == SubSeq(a, n + 1, Len(a))
\* the first Len(d) - 1 limbs of a cannot hold d: the division starts below them
DivNormal(a, d) == DivTrim(DivLimbs(a, d, Len(a) - Len(d) + 1, HighLimbs(a, Len(a) - Len(d) + 1)))

\* [q |-> a \div d, exact |-> a % d = 0] for d > 0
BigDivBy(a, d, t) == DivNormal(BigShl(a, t), BigShl(d, t))
BigDiv(a, d) ==
    IF BigLess(a, d) THEN [q |-> <<>>, exact |-> a = <<>>]
    ELSE BigDivBy(a, d, 15 * Len(d) - BitLen(d))

\* 5^k by squaring
BigSquare(a) == BigMul(a, a)
RECURSIVE BigPow5(_)
BigPow5(k) ==
    IF k < 6 THEN <<5^k>>
    ELSE IF k % 2 = 1 THEN BigMulSmall(BigPow5(k - 1), 5)
    ELSE BigSquare(BigPow5(k \div 2))
\* 10^k
BigPow10(k) == BigShl(BigPow5(k), k)

\* the natural written by the digit values ds[lo..hi], most significant first, by halves
RECURSIVE BigOfDigitsIn(_, _, _)
BigOfDigitsSplit(ds, lo, mid, hi) ==
    BigAdd(BigMul(BigOfDigitsIn(ds, lo, mid), BigPow10(hi - mid)), BigOfDigitsIn(ds, mid + 1, hi))
BigOfDigitsIn(ds, lo, hi) ==
    IF lo > hi THEN <<>>
    ELSE IF lo = hi THEN BigOfNat(ds[lo])
    ELSE BigOfDigitsSplit(ds, lo, (lo + hi) \div 2, hi)
BigOfDigits(ds) == BigOfDigitsIn(ds, 1, Len(ds))

----------------------------------------------------------------------------
(* IEEE-754 doubles *)

NaN == [t |-> "float", k |-> "nan", neg |-> FALSE, m |-> <<>>, e |-> 0]
Inf(neg) == [t |-> "float", k |-> "inf", neg |-> neg, m |-> <<>>, e |-> 0]
Fin(neg, m, e) == [t |-> "float", k |-> "fin", neg |-> neg, m |-> m, e |-> e]
Zero(neg) == Fin(neg, <<>>, 0)

IsZero(x) == x.k = "fin" /\ x.m = <<>>

\* the double (-1)^neg * m * 2^e, exactly representable, in its canonical form
FCanon(neg, m, e) ==
    IF m = <<>> THEN Zero(neg)
    ELSE Fin(neg, BigShr(m, TrailingZeros(m)), e + TrailingZeros(m))

\* m * 2^e after rounding: infinity from 2^1024 on
FFinish(neg, m, e) == IF BitLen(m) + e > 1024 THEN Inf(neg) ELSE FCanon(neg, m, e)

\* 1 when dropping the drop lowest bits of q rounds up: the first dropped bit is
\* set and either something below it is, or the kept part is odd
RoundUp(q, sticky, drop) ==
    IF Bit(q, drop - 1) = 1 /\ (~LowBitsZero(q, drop - 1) \/ sticky \/ Bit(q, drop) = 1)
    THEN <<1>> ELSE <<>>

FRoundDrop(neg, q, sticky, e, drop) ==
    IF drop <= 0 THEN FFinish(neg, q, e)
    ELSE FFinish(neg, BigAdd(BigShr(q, drop), RoundUp(q, sticky, drop)), e + drop)

\* the double nearest to (-1)^neg * (q + s) * 2^e, where 0 < s < 1 when sticky
\* and s = 0 otherwise; sticky only with q of 55 bits or more
FRound(neg, q, sticky, e) == FRoundDrop(neg, q, sticky, e, Max2(BitLen(q) - 53, -1074 - e))

\* the double nearest to (-1)^neg * (n / d) * 2^e for naturals n, d > 0:
\* the quotient is taken with 56 bits or more
FRatioShifted(neg, res, e) == FRound(neg, res.q, ~res.exact, e)
FRatioBy(neg, n, d, e, s) ==
    IF s >= 0 THEN FRatioShifted(neg, BigDiv(BigShl(n, s), d), e - s)
    ELSE FRatioShifted(neg, BigDiv(n, BigShl(d, -s)), e - s)
FRatio(neg, n, d, e) == FRatioBy(neg, n, d, e, 56 - (BitLen(n) - BitLen(d)))

\* float(n) of an int
FOfInt(n) == FCanon(n < 0, BigOfNat(IF n < 0 THEN -n ELSE n), 0)

\* -x
FNeg(x) == IF x.k = "nan" THEN x ELSE [x EXCEPT !.neg = ~x.neg]

\* x + y
FAddAligned(na, a, nb, b, e) ==
    IF na = nb THEN FRound(na, BigAdd(a, b), FALSE, e)
    ELSE IF BigCmp(a, b) = 0 THEN Zero(FALSE)
    ELSE IF BigCmp(a, b) > 0 THEN FRound(na, BigSub(a, b), FALSE, e)
    ELSE FRound(nb, BigSub(b, a), FALSE, e)
\* position of the top bit of a finite double other than zero
TopBit(x) == BitLen(x.m) + x.e
\* a term 2^60 times smaller than the other is far below half a unit in the
\* last place of the other and leaves it as it is
FAddFin(x, y, e) ==
    IF x.m = <<>> /\ y.m = <<>> THEN Zero(x.neg /\ y.neg)
    ELSE IF x.m = <<>> THEN y
    ELSE IF y.m = <<>> THEN x
    ELSE IF TopBit(x) - TopBit(y) > 60 THEN x
    ELSE IF TopBit(y) - TopBit(x) > 60 THEN y
    ELSE FAddAligned(x.neg, BigShl(x.m, x.e - e), y.neg, BigShl(y.m, y.e - e), e)
FAdd(x, y) ==
    IF x.k = "nan" \/ y.k = "nan" THEN NaN
    ELSE IF x.k = "inf" /\ y.k = "inf" THEN (IF x.neg = y.neg THEN x ELSE NaN)
    ELSE IF x.k = "inf" THEN x
    ELSE IF y.k = "inf" THEN y
    ELSE FAddFin(x, y, Min2(x.e, y.e))

\* x * y
FMul(x, y) ==
    IF x.k = "nan" \/ y.k = "nan" THEN NaN
    ELSE IF (x.k = "inf" /\ IsZero(y)) \/ (IsZero(x) /\ y.k = "inf") THEN NaN
    ELSE IF x.k = "inf" \/ y.k = "inf" THEN Inf(x.neg # y.neg)
    ELSE IF x.m = <<>> \/ y.m = <<>> THEN Zero(x.neg # y.neg)
    ELSE FRound(x.neg # y.neg, BigMul(x.m, y.m), FALSE, x.e + y.e)

\* x / y for y other than zero
FQuot(x, y) ==
    IF x.k = "nan" \/ y.k = "nan" THEN NaN
    ELSE IF x.k = "inf" /\ y.k = "inf" THEN NaN
    ELSE IF x.k = "inf" THEN Inf(x.neg # y.neg)
    ELSE IF y.k = "inf" \/ x.m = <<>> THEN Zero(x.neg # y.neg)
    ELSE FRatio(x.neg # y.neg, x.m, y.m, x.e - y.e)

\* int(x) of a finite double: the integer part, towards zero
FTruncNat(x) == IF x.e >= 0 THEN BigShl(x.m, x.e) ELSE BigShr(x.m, -x.e)
FTrunc(x) == IF x.neg THEN -NatOfBig(FTruncNat(x)) ELSE NatOfBig(FTruncNat(x))

----------------------------------------------------------------------------
(* float(str): the text of a double *)

IsDigit(c) == c \in 48..57
AllDigits(s) == \A i \in DOMAIN s : IsDigit(s[i])
DigitValues(s) == [i \in DOMAIN s |-> s[i] - 48]

\* a decimal digit of any script
IsDecimal(c) == \E z \in DigitZeros : c - z \in 0..9
DecimalValue(c) == c - (CHOOSE z \in DigitZeros : c - z \in 0..9)

\* what float() reads instead of the string: code points below 127 as they are,
\* other whitespace as a space, other decimal digits as ASCII digits, "?" for the rest
FloatChar(c) ==
    IF c < 127 THEN c
    ELSE IF c \in Whitespace THEN 32
    ELSE IF IsDecimal(c) THEN 48 + DecimalValue(c)
    ELSE 63
FloatAscii(s) == [i \in DOMAIN s |-> FloatChar(s[i])]

\* an underscore only between two digits
UnderscoresOk(s) ==
    \A i \in DOMAIN s :
        s[i] = 95 => (i > 1 /\ i < Len(s) /\ IsDigit(s[i - 1]) /\ IsDigit(s[i + 1]))
DropUnderscores(s) == SelectSeq(s, LAMBDA c : c # 95)

\* whitespace of the C locale, stripped around the numeral
CSpace == {9, 10, 11, 12, 13, 32}

Raise(exc) == [ok |-> FALSE, exc |-> exc]
Ok(v) == [ok |-> TRUE, v |-> v]

\* digits without the zeros in front
LeadingZeros(ds) == CHOOSE n \in 0..Len(ds) : (n = Len(ds) \/ ds[n + 1] # 0) /\ \A i \in 1..n : ds[i] = 0
DropLeadingZeros(ds) == SubSeq(ds, LeadingZeros(ds) + 1, Len(ds))

\* the value of a digit string, 999999 from seven significant digits on
CappedValue(ds) == IF Len(ds) > 6 THEN 999999 ELSE NatOfBig(BigOfDigits(ds))

\* the double nearest to (-1)^neg * n * 10^k for a natural n > 0 of nd digits:
\* from 10^310 on it is an infinity, below 10^-330 a zero
DecimalToDouble(neg, n, nd, k) ==
    IF nd + k > 310 THEN Inf(neg)
    ELSE IF nd + k < -330 THEN Zero(neg)
    ELSE IF k >= 0 THEN FRound(neg, BigMul(n, BigPow5(k)), FALSE, k)
    ELSE FRatio(neg, n, BigPow5(-k), k)

\* significant digits ds (no zero in front) times 10^k
DigitsToDouble(neg, ds, k) ==
    IF ds = <<>> THEN Zero(neg) ELSE DecimalToDouble(neg, BigOfDigits(ds), Len(ds), k)

\* mantissa digits ip.fp and decimal exponent ex
NumeralValue(neg, ip, fp, ex) ==
    DigitsToDouble(neg, DropLeadingZeros(DigitValues(ip \o fp)), ex - Len(fp))

\* the exponent part after "e": [sign] digits
ExponentOk(x) ==
    IF x # <<>> /\ x[1] \in {43, 45} THEN Len(x) > 1 /\ AllDigits(Tail(x))
    ELSE x # <<>> /\ AllDigits(x)
ExponentValue(x) ==
    IF x[1] = 45 THEN -CappedValue(DropLeadingZeros(DigitValues(Tail(x))))
    ELSE IF x[1] = 43 THEN CappedValue(DropLeadingZeros(DigitValues(Tail(x))))
    ELSE CappedValue(DropLeadingZeros(DigitValues(x)))

\* the mantissa given the positions of its dots: digits [. digits], a digit at least
MantissaAt(neg, mant, dots, ex) ==
    IF dots = {}
    THEN (IF mant # <<>> /\ AllDigits(mant) THEN Ok(NumeralValue(neg, mant, <<>>, ex))
          ELSE Raise("ValueError"))
    ELSE IF Cardinality(dots) = 1 /\ Len(mant) > 1 /\ AllDigits(SelectSeq(mant, LAMBDA c : c # 46))
    THEN Ok(NumeralValue(neg, SubSeq(mant, 1, (CHOOSE i \in dots : TRUE) - 1),
                         SubSeq(mant, (CHOOSE i \in dots : TRUE) + 1, Len(mant)), ex))
    ELSE Raise("ValueError")
Mantissa(neg, mant, ex) == MantissaAt(neg, mant, { i \in DOMAIN mant : mant[i] = 46 }, ex)

\* the numeral given the positions of "e" and "E": mantissa [e exponent]
NumeralAt(neg, body, es) ==
    IF es = {} THEN Mantissa(neg, body, 0)
    ELSE IF Cardinality(es) = 1 /\ ExponentOk(SubSeq(body, (CHOOSE i \in es : TRUE) + 1, Len(body)))
    THEN Mantissa(neg, SubSeq(body, 1, (CHOOSE i \in es : TRUE) - 1),
                  ExponentValue(SubSeq(body, (CHOOSE i \in es : TRUE) + 1, Len(body))))
    ELSE Raise("ValueError")

T_inf == Text("inf")
T_infinity == Text("infinity")
T_nan == Text("nan")

\* the unsigned part: inf, infinity, nan in any case, or a numeral
Unsigned(neg, body) ==
    IF Lower(body) \in {T_inf, T_infinity} THEN Ok(Inf(neg))
    ELSE IF Lower(body) = T_nan THEN Ok(NaN)
    ELSE NumeralAt(neg, body, { i \in DOMAIN body : body[i] \in {69, 101} })

FloatOfStripped(t) ==
    IF t # <<>> /\ t[1] \in {43, 45} THEN Unsigned(t[1] = 45, Tail(t)) ELSE Unsigned(FALSE, t)

FloatOfAscii(a) ==
    IF UnderscoresOk(a) THEN FloatOfStripped(Strip(DropUnderscores(a), CSpace))
    ELSE Raise("ValueError")

\* float(s) of a str
ParseFloat(s) == FloatOfAscii(FloatAscii(s))

----------------------------------------------------------------------------
(* Python values, repr() and str() *)

None == [t |-> "none"]
Bool(b) == [t |-> "bool", b |-> b]
IntVal(n) == [t |-> "int", n |-> n]
Str(s) == [t |-> "str", s |-> s]
List(l) == [t |-> "list", l |-> l]
Tuple(l) == [t |-> "tuple", l |-> l]
Dict(d) == [t |-> "dict", d |-> d]
\* a dict item with any key, and one with a str key
Item(k, v) == [k |-> k, v |-> v]
Entry(k, v) == [k |-> Str(k), v |-> v]

IsDict(v) == v.t = "dict"
IsNone(v) == v.t = "none"
IsStr(v) == v.t = "str"
IsFloat(v) == v.t = "float"

\* bool(v)
Truthy(v) ==
    CASE v.t = "none" -> FALSE
      [] v.t = "bool" -> v.b
      [] v.t = "int" -> v.n # 0
      [] v.t = "float" -> ~IsZero(v)
      [] v.t = "str" -> v.s # <<>>
      [] v.t \in {"list", "tuple"} -> v.l # <<>>
      [] v.t = "dict" -> v.d # <<>>

\* a or b
PyOr(a, b) == IF Truthy(a) THEN a ELSE b

\* "k in d" and d.get(k) for a str k: no key of another type equals a str
HasKey(d, k) == \E i \in DOMAIN d.d : d.d[i].k = Str(k)
DictGet(d, k) ==
    IF HasKey(d, k) THEN d.d[CHOOSE i \in DOMAIN d.d : d.d[i].k = Str(k)].v ELSE None
\* d.keys()
Keys(d) == [i \in DOMAIN d.d |-> d.d[i].k]
\* d.get(key) where key is None or a key of d
DictGetVal(d, key) ==
    IF \E i \in DOMAIN d.d : d.d[i].k = key
    THEN d.d[CHOOSE i \in DOMAIN d.d : d.d[i].k = key].v ELSE None

\* the decimal digits of a natural below 2^31
NumDigits(n) == 1 + Cardinality({ d \in 1..9 : n >= 10^d })
NatText(n) == [i \in 1..NumDigits(n) |-> 48 + ((n \div 10^(NumDigits(n) - i)) % 10)]
\* str(n) of an int
IntText(n) == IF n < 0 THEN <<45>> \o NatText(-n) ELSE NatText(n)

\* float.__repr__ takes the shortest digit string that float() reads back as the
\* same double. With u the exponent of the unit in the last place, the doubles
\* next to x = m * 2^e lie 2^u above and 2^u below (2^(u-1) below for a power of
\* two over the smallest normal); a decimal within half of that of x reads
\* back as x, the two ends included when the 53-bit mantissa is even.
UlpExp(m, e) == Max2(e + BitLen(m) - 53, -1074)
EvenMantissa(m, e) == e > UlpExp(m, e)
NarrowBelow(m, e) == IF m = <<1>> /\ UlpExp(m, e) > -1074 THEN 1 ELSE 0

\* x = r/s and the half distances lo/s below and hi/s above, as naturals; 2^t is
\* the half distance below
ReprStartAt(m, e, t, nb) ==
    IF t >= 0
    THEN [r |-> BigShl(m, e), s |-> <<1>>, lo |-> BigShl(<<1>>, t), hi |-> BigShl(<<1>>, t + nb)]
    ELSE [r |-> BigShl(m, e - t), s |-> BigShl(<<1>>, -t), lo |-> <<1>>, hi |-> BigShl(<<1>>, nb)]
ReprStart(m, e) == ReprStartAt(m, e, UlpExp(m, e) - 1 - NarrowBelow(m, e), NarrowBelow(m, e))

\* 10^k <= r/s
AtLeastPow10(sc, k) ==
    IF k >= 0 THEN ~BigLess(sc.r, BigMul(sc.s, BigPow10(k)))
    ELSE ~BigLess(BigMul(sc.r, BigPow10(-k)), sc.s)
\* the k with 10^k <= r/s < 10^(k+1), from an estimate that is off by one at most
Exp10From(sc, est) ==
    IF ~AtLeastPow10(sc, est) THEN est - 1
    ELSE IF AtLeastPow10(sc, est + 1) THEN est + 1
    ELSE est
Exp10(sc, bits) == Exp10From(sc, ((bits - 1) * 30103) \div 100000)

\* r/s divided by 10^k, so that 1 <= r/s < 10
ScaleUp(sc, p) == [r |-> BigMul(sc.r, p), s |-> sc.s, lo |-> BigMul(sc.lo, p), hi |-> BigMul(sc.hi, p)]
ScaleTo(sc, k) ==
    IF k >= 0 THEN [r |-> sc.r, s |-> BigMul(sc.s, BigPow10(k)), lo |-> sc.lo, hi |-> sc.hi]
    ELSE ScaleUp(sc, BigPow10(-k))

\* r \div s for r < 10 * s
QuoDigit(r, s) == Cardinality({ d \in 1..9 : ~BigLess(r, BigMulSmall(s, d)) })

\* the digits of r/s, one at a time, until the digits so far, or these with the
\* last one raised, lie within the half distances of x: j compares what is left
\* of r with lo, j1 compares it plus hi with s. A last digit of 10 stands for a
\* 9 to be raised.
RECURSIVE ShortFrom(_, _, _, _, _)
\* what is left is above half, or at half after an odd digit
RaiseLast(b, s, dig) == BigLess(s, BigShl(b, 1)) \/ (BigShl(b, 1) = s /\ dig % 2 = 1)
ShortCmp(dig, b, s, lo, hi, even, j, j1) ==
    IF j1 = 0 /\ even THEN (IF dig = 9 THEN <<10>> ELSE IF j > 0 THEN <<dig + 1>> ELSE <<dig>>)
    ELSE IF j < 0 \/ (j = 0 /\ even)
    THEN (IF b = <<>> THEN <<dig>>
          ELSE IF j1 > 0 /\ RaiseLast(b, s, dig) THEN <<dig + 1>>
          ELSE <<dig>>)
    ELSE IF j1 > 0 THEN <<dig + 1>>
    ELSE <<dig>> \o ShortFrom(BigMulSmall(b, 10), s, BigMulSmall(lo, 10), BigMulSmall(hi, 10), even)
ShortRem(dig, b, s, lo, hi, even) ==
    ShortCmp(dig, b, s, lo, hi, even, BigCmp(b, lo), BigCmp(BigAdd(b, hi), s))
ShortWith(dig, r, s, lo, hi, even) == ShortRem(dig, BigSub(r, BigMulSmall(s, dig)), s, lo, hi, even)
ShortFrom(r, s, lo, hi, even) == ShortWith(QuoDigit(r, s), r, s, lo, hi, even)

\* raising a last digit 9: the nines before it go, the digit before them is
\* raised; nines only become 1 with the decimal point one place further
LastNotNine(raw) ==
    CHOOSE j \in 0..(Len(raw) - 1) : (j = 0 \/ raw[j] # 9) /\ \A i \in (j + 1)..(Len(raw) - 1) : raw[i] = 9
RoundOffAt(raw, decpt, j) ==
    IF j = 0 THEN [digits |-> <<1>>, decpt |-> decpt + 1]
    ELSE [digits |-> SubSeq(raw, 1, j - 1) \o <<raw[j] + 1>>, decpt |-> decpt]
RoundOff(raw, decpt) ==
    IF raw[Len(raw)] = 10 THEN RoundOffAt(raw, decpt, LastNotNine(raw))
    ELSE [digits |-> raw, decpt |-> decpt]

ShortScaled(sc, k, even) == RoundOff(ShortFrom(sc.r, sc.s, sc.lo, sc.hi, even), k + 1)
ShortOf(sc, k, even) == ShortScaled(ScaleTo(sc, k), k, even)
ShortAt(sc, bits, even) == ShortOf(sc, Exp10(sc, bits), even)
\* [digits, decpt]: x = 0.d1d2... * 10^decpt
ShortDecimal(m, e) == ShortAt(ReprStart(m, e), BitLen(m) + e, EvenMantissa(m, e))

Zeros(n) == [i \in 1..n |-> 48]
DigitChars(ds) == [i \in DOMAIN ds |-> 48 + ds[i]]
\* the exponent with its sign and two digits at least
ExpText(x) ==
    <<IF x < 0 THEN 45 ELSE 43>>
        \o (IF x \in -9..9 THEN <<48>> ELSE <<>>) \o NatText(IF x < 0 THEN -x ELSE x)
ReprExp(ds, x) ==
    <<ds[1]>> \o (IF Len(ds) > 1 THEN <<46>> \o SubSeq(ds, 2, Len(ds)) ELSE <<>>) \o <<101>> \o ExpText(x)
\* exponent form below 1e-4 and from 1e16 on, ".0" after an integer
ReprPlaced(ds, decpt) ==
    IF decpt <= -4 \/ decpt > 16 THEN ReprExp(ds, decpt - 1)
    ELSE IF decpt <= 0 THEN <<48, 46>> \o Zeros(-decpt) \o ds
    ELSE IF decpt >= Len(ds) THEN ds \o Zeros(decpt - Len(ds)) \o <<46, 48>>
    ELSE SubSeq(ds, 1, decpt) \o <<46>> \o SubSeq(ds, decpt + 1, Len(ds))
ReprShort(sd) == ReprPlaced(DigitChars(sd.digits), sd.decpt)

T_0_0 == Text("0.0")
\* repr(x) of a float
FRepr(x) ==
    IF x.k = "nan" THEN T_nan
    ELSE IF x.k = "inf" THEN (IF x.neg THEN <<45>> ELSE <<>>) \o T_inf
    ELSE (IF x.neg THEN <<45>> ELSE <<>>)
             \o (IF x.m = <<>> THEN T_0_0 ELSE ReprShort(ShortDecimal(x.m, x.e)))

\* str.isprintable of one character; repr() of a str escapes the others
IsPrintable(c) == IF c < 127 THEN c >= 32 ELSE ~InRuns(c, NonPrintableRuns)
HexDigit(v) == IF v < 10 THEN 48 + v ELSE 87 + v
Hex(c, n) == [i \in 1..n |-> HexDigit((c \div 16^(n - i)) % 16)]
ReprChar(c, quote) ==
    IF c = 92 \/ c = quote THEN <<92, c>>
    ELSE IF c = 9 THEN <<92, 116>>
    ELSE IF c = 10 THEN <<92, 110>>
    ELSE IF c = 13 THEN <<92, 114>>
    ELSE IF IsPrintable(c) THEN <<c>>
    ELSE IF c < 256 THEN <<92, 120>> \o Hex(c, 2)
    ELSE IF c < 65536 THEN <<92, 117>> \o Hex(c, 4)
    ELSE <<92, 85>> \o Hex(c, 8)
\* double quotes when the text has a single quote and no double quote
ReprQuote(s) == IF (\E i \in DOMAIN s : s[i] = 39) /\ (\A i \in DOMAIN s : s[i] # 34) THEN 34 ELSE 39
ReprQuoted(s, quote) == <<quote>> \o Flatten([i \in DOMAIN s |-> ReprChar(s[i], quote)]) \o <<quote>>
StrRepr(s) == ReprQuoted(s, ReprQuote(s))

T_None == Text("None")
T_True == Text("True")
T_False == Text("False")
T_CommaSpace == Text(", ")
T_ColonSpace == Text(": ")

\* repr(v)
RECURSIVE PyRepr(_)
ItemRepr(it) == PyRepr(it.k) \o T_ColonSpace \o PyRepr(it.v)
PyRepr(v) ==
    CASE v.t = "none" -> T_None
      [] v.t = "bool" -> IF v.b THEN T_True ELSE T_False
      [] v.t = "int" -> IntText(v.n)
      [] v.t = "float" -> FRepr(v)
      [] v.t = "str" -> StrRepr(v.s)
      [] v.t = "list" -> <<91>> \o Join([i \in DOMAIN v.l |-> PyRepr(v.l[i])], T_CommaSpace) \o <<93>>
      [] v.t = "tuple" -> <<40>> \o Join([i \in DOMAIN v.l |-> PyRepr(v.l[i])], T_CommaSpace)
                              \o (IF Len(v.l) = 1 THEN <<44, 41>> ELSE <<41>>)
      [] v.t = "dict" -> <<123>> \o Join([i \in DOMAIN v.d |-> ItemRepr(v.d[i])], T_CommaSpace) \o <<125>>
\* str(v)
PyStr(v) == IF v.t = "str" THEN v.s ELSE PyRepr(v)

\* float(v): a float as it is, an int or bool converted, a str parsed, a TypeError
\* for the rest
PyFloat(v) ==
    CASE v.t = "float" -> Ok(v)
      [] v.t = "int" -> Ok(FOfInt(v.n))
      [] v.t = "bool" -> Ok(FOfInt(IF v.b THEN 1 ELSE 0))
      [] v.t = "str" -> ParseFloat(v.s)
      [] OTHER -> Raise("TypeError")


----------------------------------------------------------------------------
(* exif_gps.py: key resolver, DMS parser, decimal converter (module level) *)

\* dictionary keys and tag spellings the code names
K_exif == Text("exif")
K_location == Text("location")
K_latitude == Text("latitude")
K_longitude == Text("longitude")
K_method == Text("method")
K_lat == Text("lat")
K_lon == Text("lon")
K_error == Text("error")
S_LOCATION == Text("LOCATION")
S_EXIFREAD == Text("EXIFREAD")
NsLat == Text("GPS GPSLatitude")
NsLatRef == Text("GPS GPSLatitudeRef")
NsLon == Text("GPS GPSLongitude")
NsLonRef == Text("GPS GPSLongitudeRef")
BareLat == Text("GPSLatitude")
BareLatRef == Text("GPSLatitudeRef")
BareLon == Text("GPSLongitude")
BareLonRef == Text("GPSLongitudeRef")
T_S == Text("S")
T_W == Text("W")
Brackets == {91, 93, 40, 41}
F60 == FOfInt(60)
F3600 == FOfInt(3600)

\* re.sub(r"\s+", "", s).lower(); re.sub of a value that is no str is a TypeError
_normalize_key(s) ==
    IF IsStr(s) THEN Ok(Str(Lower(RemoveWhitespace(s.s)))) ELSE Raise("TypeError")

\* nc in norm, nc being the normalized form of a candidate
InNorm(keys, nc) == \E i \in DOMAIN keys : _normalize_key(keys[i]) = nc

\* norm[nc]: the dict comprehension keeps the LAST key of the mapping having
\* the normalized form nc
NormAt(keys, nc) ==
    keys[CHOOSE i \in DOMAIN keys :
            /\ _normalize_key(keys[i]) = nc
            /\ \A j \in DOMAIN keys : _normalize_key(keys[j]) = nc => j <= i]

\* the candidates at which the loop can end: one that is no str, or one in norm
Stops(keys, cands) ==
    { c \in DOMAIN cands :
        ~_normalize_key(cands[c]).ok \/ InNorm(keys, _normalize_key(cands[c])) }

\* variant: the matching candidate's spelling is returned, not the mapping's key
FindInNorm_Candidate(keys, cands, stops) ==
    IF stops = {} THEN Ok(None)
    ELSE IF ~_normalize_key(cands[Kth(stops, 1)]).ok THEN _normalize_key(cands[Kth(stops, 1)])
    ELSE Ok(cands[Kth(stops, 1)])

\* the candidate loop of _find_key over the keys of the mapping, which ends at
\* the first of the candidates at the positions in stops
FindInNorm(keys, cands, stops) ==
    IF stops = {} THEN Ok(None)
    ELSE IF ~_normalize_key(cands[Kth(stops, 1)]).ok THEN _normalize_key(cands[Kth(stops, 1)])
    ELSE Ok(NormAt(keys, _normalize_key(cands[Kth(stops, 1)])))

\* the comprehension over tags.keys(), then the loop
FindAmong(keys, cands) ==
    IF \E i \in DOMAIN keys : ~_normalize_key(keys[i]).ok THEN Raise("TypeError")
    ELSE FindInNorm(keys, cands, Stops(keys, cands))

\* _find_key(tags, *candidates) of the module
_find_key(tags, cands) ==
    IF ~Truthy(tags) THEN Ok(None)
    ELSE IF ~IsDict(tags) THEN Raise("AttributeError")
    ELSE FindAmong(Keys(tags), cands)

\* float(a) / float(b), both copies of _parse_rational: float(a) is evaluated
\* first, a zero divisor of either sign is a ZeroDivisionError
Quotient(a, b) ==
    IF ~a.ok THEN a
    ELSE IF ~b.ok THEN b
    ELSE IF IsZero(b.v) THEN Raise("ZeroDivisionError")
    ELSE Ok(FQuot(a.v, b.v))

\* tok.split("/", 1): the texts before and after the first slash, at cut
SplitQuotient(tok, cut) ==
    Quotient(ParseFloat(SubSeq(tok, 1, cut - 1)), ParseFloat(SubSeq(tok, cut + 1, Len(tok))))

\* the stripped token
RationalOfStripped(tok) ==
    IF Find(tok, 47) # 0 THEN SplitQuotient(tok, Find(tok, 47)) ELSE ParseFloat(tok)

\* _parse_rational(token); token.strip() of a value that is no str is an
\* AttributeError
_parse_rational(token) ==
    IF IsStr(token) THEN RationalOfStripped(Strip(token.s, Whitespace))
    ELSE Raise("AttributeError")

\* a list of str
StrEach(texts) == [i \in DOMAIN texts |-> Str(texts[i])]

\* the parts list of _parse_dms
DmsParts(value) ==
    IF value.t \in {"list", "tuple"}
    THEN [i \in DOMAIN value.l |-> Str(PyStr(value.l[i]))]
    ELSE StrEach(SplitCommaSpace(Strip(Strip(PyStr(value), Whitespace), Brackets)))

\* the tuple (d, m, s) of three parsed components, both copies of _parse_dms:
\* the first failure is the one raised
Triple(d, m, s) ==
    IF ~d.ok THEN d
    ELSE IF ~m.ok THEN m
    ELSE IF ~s.ok THEN s
    ELSE Ok(Tuple(<<d.v, m.v, s.v>>))

\* variant: every component is parsed, not only the first three
ParseParts_All(parts) ==
    IF Len(parts) < 3 THEN Raise("ValueError")
    ELSE IF \E i \in DOMAIN parts : ~_parse_rational(parts[i]).ok THEN Raise("ValueError")
    ELSE Triple(_parse_rational(parts[1]), _parse_rational(parts[2]), _parse_rational(parts[3]))

\* the length test and the first three components of the parts list
ParseParts(parts) ==
    IF Len(parts) < 3 THEN Raise("ValueError")
    ELSE Triple(_parse_rational(parts[1]), _parse_rational(parts[2]), _parse_rational(parts[3]))

_parse_dms(value) == ParseParts(DmsParts(value))

\* variant: the reference is not upper-cased
IsSouthWest_NoUpper(ref) == Strip(PyStr(ref), Whitespace) \in {T_S, T_W}

\* str(ref).upper().strip() in ("S", "W")
IsSouthWest(ref) == Strip(Upper(PyStr(ref)), Whitespace) \in {T_S, T_W}

\* d + m/60.0 + s/3600.0
DmsSum(d, m, s) == FAdd(FAdd(d, FQuot(m, F60)), FQuot(s, F3600))

\* dec, negated when negate; p is the outcome of the parse
SignedDec(p, negate) ==
    IF ~p.ok THEN p
    ELSE IF negate THEN Ok(FNeg(DmsSum(p.v.l[1], p.v.l[2], p.v.l[3])))
    ELSE Ok(DmsSum(p.v.l[1], p.v.l[2], p.v.l[3]))

_dms_to_decimal(dms_val, ref) == SignedDec(_parse_dms(dms_val), IsSouthWest(ref))

----------------------------------------------------------------------------
(* exif_gps.py: extract_gps_from_exifread and its inline helper copies *)

inner_normalize_key(s) ==
    IF IsStr(s) THEN Ok(Str(Lower(RemoveWhitespace(s.s)))) ELSE Raise("TypeError")

inner_in_norm(keys, nc) == \E i \in DOMAIN keys : inner_normalize_key(keys[i]) = nc

inner_norm_at(keys, nc) ==
    keys[CHOOSE i \in DOMAIN keys :
            /\ inner_normalize_key(keys[i]) = nc
            /\ \A j \in DOMAIN keys : inner_normalize_key(keys[j]) = nc => j <= i]

inner_stops(keys, cands) ==
    { c \in DOMAIN cands :
        ~inner_normalize_key(cands[c]).ok \/ inner_in_norm(keys, inner_normalize_key(cands[c])) }

inner_find_in_norm(keys, cands, stops) ==
    IF stops = {} THEN Ok(None)
    ELSE IF ~inner_normalize_key(cands[Kth(stops, 1)]).ok
    THEN inner_normalize_key(cands[Kth(stops, 1)])
    ELSE Ok(inner_norm_at(keys, inner_normalize_key(cands[Kth(stops, 1)])))

inner_find_among(keys, cands) ==
    IF \E i \in DOMAIN keys : ~inner_normalize_key(keys[i]).ok THEN Raise("TypeError")
    ELSE inner_find_in_norm(keys, cands, inner_stops(keys, cands))

\* inline _find_key(d, *cands): no emptiness test, same comprehension and loop
inner_find_key(d, cands) ==
    IF ~IsDict(d) THEN Raise("AttributeError") ELSE inner_find_among(Keys(d), cands)

inner_split_quotient(tok, cut) ==
    Quotient(ParseFloat(SubSeq(tok, 1, cut - 1)), ParseFloat(SubSeq(tok, cut + 1, Len(tok))))

inner_rational_of_stripped(tok) ==
    IF Find(tok, 47) # 0 THEN inner_split_quotient(tok, Find(tok, 47)) ELSE ParseFloat(tok)

inner_parse_rational(tok0) ==
    IF IsStr(tok0) THEN inner_rational_of_stripped(Strip(tok0.s, Whitespace))
    ELSE Raise("AttributeError")

inner_dms_parts(value) ==
    IF value.t \in {"list", "tuple"}
    THEN [i \in DOMAIN value.l |-> Str(PyStr(value.l[i]))]
    ELSE StrEach(SplitCommaSpace(Strip(Strip(PyStr(value), Whitespace), Brackets)))

inner_parse_parts(parts) ==
    IF Len(parts) < 3 THEN Raise("ValueError")
    ELSE Triple(inner_parse_rational(parts[1]), inner_parse_rational(parts[2]),
                inner_parse_rational(parts[3]))

inner_parse_dms(value) == inner_parse_parts(inner_dms_parts(value))

\* variant: only "S" negates
inner_is_south_only(ref) == Strip(Upper(PyStr(ref)), Whitespace) \in {T_S}

\* str(ref).upper().strip() in ("S", "W") of the inline converter
inner_is_south_west(ref) == Strip(Upper(PyStr(ref)), Whitespace) \in {T_S, T_W}

\* d + m/60.0 + s/3600.0 of the inline converter
inner_dms_sum(d, m, s) == FAdd(FAdd(d, FQuot(m, F60)), FQuot(s, F3600))

inner_signed_dec(p, negate) ==
    IF ~p.ok THEN p
    ELSE IF negate THEN Ok(FNeg(inner_dms_sum(p.v.l[1], p.v.l[2], p.v.l[3])))
    ELSE Ok(inner_dms_sum(p.v.l[1], p.v.l[2], p.v.l[3]))

inner_dms_to_decimal(v, ref) == inner_signed_dec(inner_parse_dms(v), inner_is_south_west(ref))

\* the dict literal {"latitude": .., "longitude": .., "method": ..}
Coordinate(lat, lon, method) ==
    Dict(<<Entry(K_latitude, lat), Entry(K_longitude, lon), Entry(K_method, method)>>)

NoHit == [hit |-> FALSE]
Hit(v) == [hit |-> TRUE, v |-> v]

\* variant: the method of the location is dropped, "LOCATION" always
LocationTry_Relabel(loc, flat, flon) ==
    IF flat.ok /\ flon.ok THEN Hit(Coordinate(flat.v, flon.v, Str(S_LOCATION))) ELSE NoHit

\* variant: latitude and longitude of the location are swapped
LocationTry_Swapped(loc, flat, flon) ==
    IF flat.ok /\ flon.ok
    THEN Hit(Coordinate(flon.v, flat.v, PyOr(DictGet(loc, K_method), Str(S_LOCATION))))
    ELSE NoHit

\* the try block of state 0, given float(lat) and float(lon): the coordinate
\* is returned, an exception of either conversion lets control fall through
LocationTry(loc, flat, flon) ==
    IF flat.ok /\ flon.ok
    THEN Hit(Coordinate(flat.v, flon.v, PyOr(DictGet(loc, K_method), Str(S_LOCATION))))
    ELSE NoHit

\* lat is not None and lon is not None
LocationPair(loc, lat, lon) ==
    IF ~IsNone(lat) /\ ~IsNone(lon) THEN LocationTry(loc, PyFloat(lat), PyFloat(lon))
    ELSE NoHit

\* isinstance(loc, dict)
LocationOf(loc) ==
    IF IsDict(loc) THEN LocationPair(loc, DictGet(loc, K_latitude), DictGet(loc, K_longitude))
    ELSE NoHit

\* state 0, "location" already decimal
LocationState(d) == LocationOf(IF IsDict(d) THEN DictGet(d, K_location) ELSE None)

\* variant: the "exif" sub-dict is never selected
TagSource_Whole(d) == d

\* state 1: the "exif" sub-dict when there is one, else the whole input
TagSource(d) ==
    IF IsDict(d) /\ IsDict(DictGet(d, K_exif)) THEN DictGet(d, K_exif) ELSE d

\* variant: the two reference keys are not required
AllResolved_NoRefs(lat_key, lat_ref_key, lon_key, lon_ref_key) ==
    Truthy(lat_key) /\ Truthy(lon_key)

\* not (lat_key and lat_ref_key and lon_key and lon_ref_key) is false
AllResolved(lat_key, lat_ref_key, lon_key, lon_ref_key) ==
    Truthy(lat_key) /\ Truthy(lat_ref_key) /\ Truthy(lon_key) /\ Truthy(lon_ref_key)

\* variant: no try/except around the conversions
TryCoordinate_NoCatch(lat, lon) ==
    IF ~lat.ok THEN lat
    ELSE IF ~lon.ok THEN lon
    ELSE Ok(Coordinate(lat.v, lon.v, Str(S_EXIFREAD)))

\* the try block given the two conversions: any exception gives None
TryCoordinate(lat, lon) ==
    IF lat.ok /\ lon.ok THEN Ok(Coordinate(lat.v, lon.v, Str(S_EXIFREAD))) ELSE Ok(None)

\* state 3: the try block around the two conversions
ParseConvert(tags, lat_key, lat_ref_key, lon_key, lon_ref_key) ==
    TryCoordinate(inner_dms_to_decimal(DictGetVal(tags, lat_key), DictGetVal(tags, lat_ref_key)),
                  inner_dms_to_decimal(DictGetVal(tags, lon_key), DictGetVal(tags, lon_ref_key)))

\* states 2-3 given the outcomes of the four lookups; the lookups are outside
\* the try block, so that an exception of the first one leaves the call
KeyStates(tags, lat_key, lat_ref_key, lon_key, lon_ref_key) ==
    IF ~lat_key.ok THEN lat_key
    ELSE IF ~AllResolved(lat_key.v, lat_ref_key.v, lon_key.v, lon_ref_key.v) THEN Ok(None)
    ELSE ParseConvert(tags, lat_key.v, lat_ref_key.v, lon_key.v, lon_ref_key.v)

\* state 2 on the selected tags: the four key lookups
SourceStates(tags) ==
    IF ~IsDict(tags) THEN Ok(None)
    ELSE KeyStates(tags,
                   inner_find_key(tags, <<Str(NsLat), Str(BareLat)>>),
                   inner_find_key(tags, <<Str(NsLatRef), Str(BareLatRef)>>),
                   inner_find_key(tags, <<Str(NsLon), Str(BareLon)>>),
                   inner_find_key(tags, <<Str(NsLonRef), Str(BareLonRef)>>))

\* states 1-3 on the tag source
TagStates(d) == SourceStates(TagSource(d))

\* state 0 returns its coordinate, or control goes on to the tags
AfterLocation(d, st) == IF st.hit THEN Ok(st.v) ELSE TagStates(d)

extract_gps_from_exifread(d) ==
    IF ~Truthy(d) THEN Ok(None) ELSE AfterLocation(d, LocationState(d))

----------------------------------------------------------------------------
(* exif_gps.py: extract_exif_with_exifread *)

\* {tag: str(value)} for the tags the reader found
TagStrings(tags_raw) == Dict([i \in DOMAIN tags_raw.d |-> Item(tags_raw.d[i].k, Str(PyStr(tags_raw.d[i].v)))])

\* extract_exif_with_exifread, given how exifread.process_file ended: read.kind
\* is "tags" with the mapping it returned, or "exception" with the text of the
\* exception it raised
extract_exif_with_exifread(read) ==
    IF read.kind = "tags" THEN TagStrings(read.tags)
    ELSE Dict(<<Entry(K_error, Str(read.text))>>)

----------------------------------------------------------------------------
(* images.py: safe_json and compress_image_and_extract_metadata *)

K_format_original == Text("format_original")
K_size_original == Text("size_original")
K_size_compressed == Text("size_compressed")
K_compression_ratio == Text("compression_ratio")
K_optics == Text("optics")
K_width == Text("width")
K_height == Text("height")
K_make == Text("make")
K_model == Text("model")
K_orientation == Text("orientation")
K_focal_length_mm == Text("focal_length_mm")
K_focal_length_35mm == Text("focal_length_35mm")
K_exif_width == Text("exif_width")
K_exif_height == Text("exif_height")
T_ImageMake == Text("Image Make")
T_ImageModel == Text("Image Model")
T_ImageOrientation == Text("Image Orientation")
T_ExifFocalLength == Text("EXIF FocalLength")
T_ExifFocalLength35 == Text("EXIF FocalLengthIn35mmFilm")
T_ExifImageWidth == Text("EXIF ExifImageWidth")
T_ExifImageHeight == Text("EXIF ExifImageHeight")
T_NaN == Text("NaN")
T_Infinity == Text("Infinity")
T_true == Text("true")
T_false == Text("false")
T_null == Text("null")

\* default max_side of compress_image_and_extract_metadata
MaxSide == 1024

\* json.dumps of a float: its repr, NaN and [-]Infinity for the non-finite ones
JsonFloat(x) ==
    IF x.k = "nan" THEN T_NaN
    ELSE IF x.k = "inf" THEN (IF x.neg THEN <<45>> ELSE <<>>) \o T_Infinity
    ELSE FRepr(x)

\* the int of an optional minus sign and decimal digits
NatOfText(s) == NatOfBig(BigOfDigits(DigitValues(s)))
IntOfText(s) == IF s[1] = 45 THEN -NatOfText(Tail(s)) ELSE NatOfText(s)

\* json.loads of a number, NaN or [-]Infinity: a float when the text has a
\* fraction or an exponent, an int otherwise
JsonNumber(s) ==
    IF s = T_NaN THEN NaN
    ELSE IF s = T_Infinity THEN Inf(FALSE)
    ELSE IF s = <<45>> \o T_Infinity THEN Inf(TRUE)
    ELSE IF \E i \in DOMAIN s : s[i] \in {46, 101, 69} THEN ParseFloat(s).v
    ELSE IntVal(IntOfText(s))

\* json.dumps of a str with ensure_ascii=False, without the quotes around it:
\* the quote, the backslash and the controls are escaped
JsonEscapeChar(c) ==
    IF c = 34 THEN <<92, 34>>
    ELSE IF c = 92 THEN <<92, 92>>
    ELSE IF c = 10 THEN <<92, 110>>
    ELSE IF c = 13 THEN <<92, 114>>
    ELSE IF c = 9 THEN <<92, 116>>
    ELSE IF c = 8 THEN <<92, 98>>
    ELSE IF c = 12 THEN <<92, 102>>
    ELSE IF c < 32 THEN <<92, 117>> \o Hex(c, 4)
    ELSE <<c>>
JsonEscape(s) == Flatten([i \in DOMAIN s |-> JsonEscapeChar(s[i])])

\* json.loads of the inside of a string: a backslash after an even number of
\* backslashes starts an escape of two characters, or of six for \uXXXX
BackslashesBefore(t, i) ==
    Cardinality({ j \in 1..(i - 1) : \A k \in j..(i - 1) : t[k] = 92 })
EscapeStart(t, i) == i \in DOMAIN t /\ t[i] = 92 /\ BackslashesBefore(t, i) % 2 = 0
InEscape(t, i) ==
    EscapeStart(t, i - 1) \/ \E j \in 2..5 : EscapeStart(t, i - j) /\ t[i - j + 1] = 117
HexValue(c) == IF c \in 48..57 THEN c - 48 ELSE IF c \in 97..102 THEN c - 87 ELSE c - 55
Escaped(t, i) ==
    CASE t[i + 1] = 110 -> 10
      [] t[i + 1] = 114 -> 13
      [] t[i + 1] = 116 -> 9
      [] t[i + 1] = 98 -> 8
      [] t[i + 1] = 102 -> 12
      [] t[i + 1] = 117 -> 4096 * HexValue(t[i + 2]) + 256 * HexValue(t[i + 3])
                             + 16 * HexValue(t[i + 4]) + HexValue(t[i + 5])
      [] OTHER -> t[i + 1]
JsonUnescapeAt(t, i) ==
    IF EscapeStart(t, i) THEN <<Escaped(t, i)>> ELSE IF InEscape(t, i) THEN <<>> ELSE <<t[i]>>
JsonUnescape(t) == Flatten([i \in DOMAIN t |-> JsonUnescapeAt(t, i)])

\* the text json.dumps writes for a dict key: a str as it is, the JSON text of
\* a float, bool, None or int
JsonKeyText(k) ==
    CASE k.t = "str" -> k.s
      [] k.t = "float" -> JsonFloat(k)
      [] k.t = "bool" -> IF k.b THEN T_true ELSE T_false
      [] k.t = "none" -> T_null
      [] k.t = "int" -> IntText(k.n)

\* json.dumps raises a TypeError for a dict key of another type, encode("utf-8")
\* a UnicodeEncodeError for a surrogate in a str or in a key
HasSurrogate(s) == \E i \in DOMAIN s : s[i] \in Surrogates
RECURSIVE JsonFails(_)
JsonKeyFails(k) ==
    k.t \notin {"str", "float", "bool", "none", "int"} \/ (k.t = "str" /\ HasSurrogate(k.s))
JsonFails(v) ==
    CASE v.t = "str" -> HasSurrogate(v.s)
      [] v.t \in {"list", "tuple"} -> \E i \in DOMAIN v.l : JsonFails(v.l[i])
      [] v.t = "dict" -> \E i \in DOMAIN v.d : JsonKeyFails(v.d[i].k) \/ JsonFails(v.d[i].v)
      [] OTHER -> FALSE

\* the items json.loads keeps of the pairs it read: one for each key, at the
\* place of the first pair with that key, with the value of the last
FirstOfKey(items) == { i \in DOMAIN items : \A j \in 1..(i - 1) : items[j].k # items[i].k }
LastOfKey(items, k) == CHOOSE i \in DOMAIN items : items[i].k = k /\ \A j \in (i + 1)..Len(items) : items[j].k # k
MergePairs(items, firsts) ==
    [n \in 1..Cardinality(firsts) |->
        Item(items[Kth(firsts, n)].k, items[LastOfKey(items, items[Kth(firsts, n)].k)].v)]

\* json.loads(json.dumps(v)) of a value json.dumps accepts: every number and
\* str through its JSON text, a tuple as a list, every key as a str
RECURSIVE JsonRoundTrip(_)
JsonPair(it) == Item(Str(JsonUnescape(JsonEscape(JsonKeyText(it.k)))), JsonRoundTrip(it.v))
JsonPairs(items) == MergePairs(items, FirstOfKey(items))
JsonRoundTrip(v) ==
    CASE v.t = "float" -> JsonNumber(JsonFloat(v))
      [] v.t = "int" -> JsonNumber(IntText(v.n))
      [] v.t = "str" -> Str(JsonUnescape(JsonEscape(v.s)))
      [] v.t \in {"list", "tuple"} -> List([i \in DOMAIN v.l |-> JsonRoundTrip(v.l[i])])
      [] v.t = "dict" -> Dict(JsonPairs([i \in DOMAIN v.d |-> JsonPair(v.d[i])]))
      [] OTHER -> v

\* safe_json(obj): any exception becomes a ValueError
safe_json(obj) == IF JsonFails(obj) THEN Raise("ValueError") ELSE Ok(JsonRoundTrip(obj))

\* the optics dict (lines 57-65)
OpticalMetadata(exif_data) ==
    Dict(<<Entry(K_make, DictGet(exif_data, T_ImageMake)),
           Entry(K_model, DictGet(exif_data, T_ImageModel)),
           Entry(K_focal_length_mm, DictGet(exif_data, T_ExifFocalLength)),
           Entry(K_focal_length_35mm, DictGet(exif_data, T_ExifFocalLength35)),
           Entry(K_orientation, DictGet(exif_data, T_ImageOrientation)),
           Entry(K_exif_width, DictGet(exif_data, T_ExifImageWidth)),
           Entry(K_exif_height, DictGet(exif_data, T_ExifImageHeight))>>)

\* ratio = max_side / max(width_original, height_original), of two ints
Ratio(img) == FQuot(FOfInt(MaxSide), FOfInt(Max2(img.width, img.height)))

\* int(side * ratio)
NewSide(side, ratio) == FTrunc(FMul(FOfInt(side), ratio))

\* the metadata dict literal (lines 67-74)
BaseMetadata(img, exif_data, ratio) ==
    <<Entry(K_format_original, img.format),
      Entry(K_size_original, Dict(<<Entry(K_width, IntVal(img.width)), Entry(K_height, IntVal(img.height))>>)),
      Entry(K_size_compressed,
            Dict(<<Entry(K_width, IntVal(NewSide(img.width, ratio))),
                   Entry(K_height, IntVal(NewSide(img.height, ratio)))>>)),
      Entry(K_compression_ratio, ratio),
      Entry(K_optics, OpticalMetadata(exif_data)),
      Entry(K_exif, exif_data)>>

\* if location: metadata["location"] = location
WithLocation(base, loc) == IF Truthy(loc) THEN Append(base, Entry(K_location, loc)) ELSE base

\* the metadata returned for the decoded image (format, width, height), the
\* EXIF tags and the extracted location (lines 43-79)
BuildMetadata(img, exif_data, loc) ==
    safe_json(Dict(WithLocation(BaseMetadata(img, exif_data, Ratio(img)), loc)))

----------------------------------------------------------------------------
(* exif_gps.py: reverse geocoding *)

K_address == Text("address")
K_city == Text("city")
K_town == Text("town")
K_village == Text("village")
K_country == Text("country")

NoPlace == Tuple(<<None, None>>)

\* HTTP status the adapter accepts
StatusOk == 200

\* (city, country) of the address; addr.get of a value that is no dict raises,
\* which the except clause turns into (None, None)
PlaceOf(addr) ==
    IF ~IsDict(addr) THEN NoPlace
    ELSE Tuple(<<PyOr(PyOr(DictGet(addr, K_city), DictGet(addr, K_town)), DictGet(addr, K_village)),
                 DictGet(addr, K_country)>>)

\* data.get("address", {}) if isinstance(data, dict) else {}
AddressOf(body) ==
    IF IsDict(body) /\ HasKey(body, K_address) THEN DictGet(body, K_address) ELSE Dict(<<>>)

\* reverse_geocode_from_latlon, given how the HTTP GET ended: resp.kind is
\* "exception" (requests.get or r.json() raised) or "response" with a
\* status and the decoded JSON body
reverse_geocode_from_latlon(lat, lon, resp) ==
    IF resp.kind = "exception" THEN NoPlace
    ELSE IF resp.status # StatusOk THEN NoPlace
    ELSE PlaceOf(AddressOf(resp.json))

\* the delegation given float(lat) and float(lon): the first conversion that
\* fails raises
Lookup(a, b) ==
    IF ~a.ok THEN [kind |-> "raise", exc |-> a.exc]
    ELSE IF ~b.ok THEN [kind |-> "raise", exc |-> b.exc]
    ELSE [kind |-> "lookup", lat |-> a.v, lon |-> b.v]

\* the dict branch given lat and lon_val
FromMapping(lat, lon_val) ==
    IF IsNone(lat) \/ IsNone(lon_val) THEN [kind |-> "none"]
    ELSE Lookup(PyFloat(lat), PyFloat(lon_val))

\* reverse_geocode_from_gps up to the delegation: "none" when it returns
\* (None, None) itself, "lookup" with the float arguments it passes on,
\* "raise" when a float() conversion fails
reverse_geocode_from_gps(gps_or_lat, lon) ==
    IF IsDict(gps_or_lat)
    THEN FromMapping(PyOr(DictGet(gps_or_lat, K_lat), DictGet(gps_or_lat, K_latitude)),
                     PyOr(DictGet(gps_or_lat, K_lon), DictGet(gps_or_lat, K_longitude)))
    ELSE IF IsNone(lon) THEN [kind |-> "none"]
    ELSE Lookup(PyFloat(gps_or_lat), PyFloat(lon))

----------------------------------------------------------------------------
(* Inputs *)

\* largest degree numeral of the well-formed tag values
MaxDeg == 1
\* largest number of components of a generated DMS value
MaxParts == 4
\* largest number of keys of a generated mapping, and of candidates
MaxKeys == 2
MaxCands == 2

Csv(toks) == Join(toks, T_CommaSpace)

\* sequences over S of length 0..n
SeqsUpTo(S, n) == UNION { [1..k -> S] : k \in 0..n }

\* floats written in the inputs
F_1_79 == ParseFloat(Text("1.79")).v
F_48_5 == ParseFloat(Text("48.5")).v
F_48_85 == ParseFloat(Text("48.85")).v
F_m3_5 == ParseFloat(Text("-3.5")).v
F_20 == FOfInt(20)

\* well-formed values "D, 51, 179/100"
WfDms(deg) == Str(Csv(<<NatText(deg), Text("51"), Text("179/100")>>))
Dms_2_21 == Str(Text("[2, 21, 3/100]"))
Dms_list == List(<<Str(Text("48")), IntVal(51), Str(Text(" 3/2"))>>)
Dms_tuple == Tuple(<<IntVal(48), IntVal(51), F_1_79>>)
Dms_floats == List(<<F_48_5, IntVal(0), IntVal(0)>>)
Dms_exp == Str(Text("4.8e1, 51, 0"))
Dms_cr == Str(<<49, 13, 50, 13, 51>>)
Dms_ff == Str(<<49, 12, 50, 32, 51>>)
Dms_nan == Str(Text("nan, 0, 0"))
Dms_inf == Str(Text("(-inf 1e400 1_0)"))
Dms_extra == Str(Text("7, 30, 0, x"))
Dms_short == Str(Text("1, 2"))
Dms_alpha == Str(Text("1, x, 3"))
Dms_zero_den == Str(Text("1/0, 2, 3"))
Dms_zero_exp == Str(Text("1, 2/-0e5, 3"))
Dms_bools == List(<<Bool(TRUE), IntVal(2), IntVal(3)>>)
\* values whose text is a repr: a zero-width space inside a nested list, a dict
Dms_nested == List(<<List(<<Str(<<8203, 39>>)>>), IntVal(3), IntVal(4)>>)
Dms_dict == Dict(<<Item(Str(<<8203>>), IntVal(1))>>)

\* spellings of the latitude key with other whitespace
CrLat == Text("GPS") \o <<13>> \o Text("GPSLatitude")
\* "Key" written with the Kelvin sign U+212A, whose lower case is "k"
KelvinKey == <<8490>> \o Text("ey")
FfLat == Text("gps") \o <<12>> \o Text("gpslatitude")

Ref_N == Str(Text("N"))
Ref_S == Str(Text("S"))
Ref_E == Str(Text("E"))
Ref_W == Str(Text("W"))
Ref_s_padded == Str(Text(" s "))
Ref_S_cr == Str(Text("S") \o <<13>>)
Ref_ff_W == Str(<<12>> \o Text("W"))
Ref_X == Str(Text("X"))
\* the long s U+017F, whose upper case is "S"
Ref_long_s == Str(<<383>>)

GoodLat == <<Entry(NsLat, WfDms(1))>>
GoodLatRef == <<Entry(NsLatRef, Ref_N)>>
GoodLon == <<Entry(NsLon, Dms_2_21)>>
GoodLonRef == <<Entry(NsLonRef, Ref_W)>>

LatSlots ==
    { <<>> }
    \cup { <<Entry(NsLat, WfDms(deg))>> : deg \in 0..MaxDeg }
    \cup { <<Entry(NsLat, v)>> :
             v \in { Dms_tuple, Dms_floats, Dms_exp, Dms_cr, Dms_ff, Dms_nan, Dms_inf, Dms_short,
                     Dms_alpha, Dms_zero_den, Dms_zero_exp, Dms_bools, Dms_nested, Dms_dict, None } }
    \cup { <<Entry(BareLat, Dms_2_21)>>,
           <<Entry(Lower(NsLat), Dms_list)>>,
           <<Entry(CrLat, Dms_2_21)>>,
           <<Entry(FfLat, Dms_list)>>,
           <<Entry(BareLat, Dms_2_21), Entry(NsLat, WfDms(0))>>,
           <<Entry(NsLat, Dms_short), Entry(BareLat, Dms_2_21)>>,
           <<Entry(NsLat, WfDms(0)), Entry(Lower(NsLat), Dms_2_21)>> }

LatRefSlots ==
    { <<>>,
      <<Entry(NsLatRef, Ref_N)>>,
      <<Entry(NsLatRef, Ref_S)>>,
      <<Entry(BareLatRef, Ref_s_padded)>>,
      <<Entry(NsLatRef, Ref_S_cr)>>,
      <<Entry(NsLatRef, Ref_W)>>,
      <<Entry(NsLatRef, Ref_X)>>,
      <<Entry(NsLatRef, Ref_long_s)>>,
      <<Entry(NsLatRef, None)>> }

LonSlots ==
    { <<>>,
      <<Entry(NsLon, Dms_2_21)>>,
      <<Entry(BareLon, WfDms(MaxDeg))>>,
      <<Entry(NsLon, Dms_short)>>,
      <<Entry(NsLon, Dms_extra)>> }

LonRefSlots ==
    { <<>>,
      <<Entry(NsLonRef, Ref_E)>>,
      <<Entry(NsLonRef, Ref_W)>>,
      <<Entry(BareLonRef, Str(Text("w")))>>,
      <<Entry(NsLonRef, Ref_ff_W)>>,
      <<Entry(Lower(NsLonRef), Str(Text("e")))>> }

\* flat tag maps as the tag reader (or a caller) may hand them over: every
\* latitude with every latitude reference, every longitude with every longitude
\* reference, and every choice of present and absent keys
TagMaps ==
    { Dict(a \o b \o GoodLon \o GoodLonRef) : a \in LatSlots, b \in LatRefSlots }
    \cup { Dict(GoodLat \o GoodLatRef \o c \o d) : c \in LonSlots, d \in LonRefSlots }
    \cup { Dict(a \o b \o c \o d) :
             a \in {<<>>, GoodLat}, b \in {<<>>, GoodLatRef}, c \in {<<>>, GoodLon}, d \in {<<>>, GoodLonRef} }

FullTags == GoodLat \o GoodLatRef \o GoodLon \o GoodLonRef
OtherTags == <<Entry(BareLat, Dms_2_21), Entry(BareLatRef, Ref_S),
               Entry(BareLon, Dms_extra), Entry(BareLonRef, Ref_E)>>
PartTags == <<Entry(NsLat, WfDms(0)), Entry(NsLatRef, Ref_N)>>

\* mappings some of whose keys are no str
OddKeyMaps ==
    { Dict(<<Item(IntVal(1), Str(Text("x")))>>),
      Dict(FullTags \o <<Item(None, Ref_N)>>),
      Dict(<<Item(Tuple(<<IntVal(1), IntVal(2)>>), None)>> \o PartTags),
      Dict(<<Entry(K_exif, Dict(<<Item(F_48_5, None)>> \o FullTags))>>),
      Dict(<<Item(IntVal(7), None), Entry(K_exif, Dict(FullTags))>>),
      Dict(<<Item(Bool(TRUE), None),
             Entry(K_location, Dict(<<Entry(K_latitude, IntVal(1)), Entry(K_longitude, IntVal(2))>>))>>),
      Dict(<<Item(IntVal(0), None),
             Entry(K_location, Dict(<<Entry(K_latitude, IntVal(1)), Entry(K_longitude, Str(Text("x")))>>))>>) }

LocLatPool == { <<>>, <<Entry(K_latitude, None)>>, <<Entry(K_latitude, IntVal(0))>>,
                <<Entry(K_latitude, Str(Text("10")))>>, <<Entry(K_latitude, F_48_85)>>,
                <<Entry(K_latitude, Str(Text("nan")))>>, <<Entry(K_latitude, Str(Text("1e1")))>>,
                <<Entry(K_latitude, Bool(TRUE))>>,
                <<Entry(K_latitude, Str(Text("x")))>>, <<Entry(K_latitude, List(<<IntVal(1)>>))>> }
LocLonPool == { <<>>, <<Entry(K_longitude, None)>>, <<Entry(K_longitude, IntVal(20))>>,
                <<Entry(K_longitude, Str(Text("-2.5")))>>, <<Entry(K_longitude, Str(Text("20") \o <<13>>))>>,
                <<Entry(K_longitude, Str(<<>>))>> }
LocMethodPool == { <<>>, <<Entry(K_method, None)>>, <<Entry(K_method, Str(<<>>))>>,
                   <<Entry(K_method, IntVal(0))>>,
                   <<Entry(K_method, Str(S_EXIFREAD))>>, <<Entry(K_method, Str(Text("MANUAL")))>> }

GoodLocLat == <<Entry(K_latitude, F_48_85)>>
GoodLocLon == <<Entry(K_longitude, Str(Text("-2.5")))>>

LocationMaps ==
    { Dict(a \o b) : a \in LocLatPool, b \in LocLonPool }
    \cup { Dict(GoodLocLat \o GoodLocLon \o c) : c \in LocMethodPool }
    \cup { Dict(<<Entry(K_method, Str(Text("MANUAL"))), Entry(K_longitude, IntVal(20)),
                  Entry(K_latitude, Str(Text("10")))>>) }

LocationEntries ==
    { <<>>, <<Entry(K_location, None)>>, <<Entry(K_location, Str(Text("x")))>> }
    \cup { <<Entry(K_location, loc)>> : loc \in LocationMaps }

ExifEntries ==
    { <<>>, <<Entry(K_exif, None)>>, <<Entry(K_exif, Str(Text("x")))>>, <<Entry(K_exif, Dict(<<>>))>>,
      <<Entry(K_exif, Dict(OtherTags))>>, <<Entry(K_exif, Dict(PartTags))>> }

TopEntries == { <<>>, FullTags, PartTags }

\* containers: every location with some tags beside it, and every "exif" entry
\* with every choice of top-level tags beside some locations
Containers ==
    { Dict(l \o t) : l \in LocationEntries, t \in {<<>>, FullTags} }
    \cup { Dict(e \o l) : e \in {<<Entry(K_exif, Dict(OtherTags))>>, <<Entry(K_exif, Dict(PartTags))>>},
                          l \in LocationEntries }
    \cup { Dict(e \o l \o t) :
             e \in ExifEntries, t \in TopEntries,
             l \in { <<>>, <<Entry(K_location, None)>>,
                     <<Entry(K_location, Dict(GoodLocLat \o GoodLocLon))>>,
                     <<Entry(K_location, Dict(GoodLocLat))>> } }

NonMappings ==
    { None, Str(<<>>), Str(NsLat), IntVal(0), IntVal(7), Bool(FALSE), Bool(TRUE), F_48_5, Zero(TRUE),
      List(<<>>), List(<<Str(NsLat)>>), Tuple(<<IntVal(1)>>) }

ExtractInputs == TagMaps \cup Containers \cup OddKeyMaps \cup NonMappings

----------------------------------------------------------------------------
(* extract_gps_from_exifread as a call *)

Idle == Ok(None)

GpsIdle == data = None /\ result = Idle
KeyIdle == kTags = None /\ kCands = <<>> /\ kFound = Idle /\ kFoundIn = Idle
DmsIdle == dValue = None /\ dParsed = Idle /\ dDec = <<>>
PipeIdle == image = None /\ exif = None /\ location = None /\ metadata = Idle
GeoIdle == gpsArg = None /\ lonArg = None /\ geoCalls = <<>> /\ geoRet = Idle

gpsVars == <<data, result>>
keyVars == <<kTags, kCands, kFound, kFoundIn>>
dmsVars == <<dValue, dParsed, dDec>>
pipeVars == <<image, exif, location, metadata>>
geoVars == <<gpsArg, lonArg, geoCalls, geoRet>>

InitGps ==
    /\ pc = "ready"
    /\ data \in ExtractInputs
    /\ result = Idle
    /\ KeyIdle /\ DmsIdle /\ PipeIdle /\ GeoIdle

ExtractCall ==
    /\ pc = "ready"
    /\ result' = extract_gps_from_exifread(data)
    /\ pc' = "done"
    /\ UNCHANGED <<data, keyVars, dmsVars, pipeVars, geoVars>>

NextGps == ExtractCall

SpecGps == InitGps /\ [][NextGps]_vars

----------------------------------------------------------------------------
(* _find_key as a call: both copies on the same mapping and candidates *)

TabLat == Text("GPS") \o <<9>> \o Text("GPSLatitude")
KeyPool == { Str(NsLat), Str(Lower(NsLat)), Str(BareLat), Str(TabLat), Str(CrLat), Str(FfLat),
             Str(KelvinKey), IntVal(1) }
CandPool == { Str(NsLat), Str(BareLat), Str(Upper(BareLat)), Str(Text("key")), None }

\* mappings with pairwise distinct keys; the value of key k is k itself
KeyMaps ==
    { Dict([i \in DOMAIN ks |-> Item(ks[i], ks[i])]) :
        ks \in { q \in SeqsUpTo(KeyPool, MaxKeys) : \A i, j \in DOMAIN q : i # j => q[i] # q[j] } }

\* values that are no mapping
KeyOthers == { None, List(<<>>), List(<<Str(NsLat)>>), Str(NsLat), IntVal(0), IntVal(3) }

InitKey ==
    /\ pc = "ready"
    /\ kTags \in KeyMaps \cup KeyOthers
    /\ kCands \in SeqsUpTo(CandPool, MaxCands)
    /\ kFound = Idle /\ kFoundIn = Idle
    /\ GpsIdle /\ DmsIdle /\ PipeIdle /\ GeoIdle

FindKeyCall ==
    /\ pc = "ready"
    /\ kFound' = _find_key(kTags, kCands)
    /\ kFoundIn' = inner_find_key(kTags, kCands)
    /\ pc' = "done"
    /\ UNCHANGED <<kTags, kCands, gpsVars, dmsVars, pipeVars, geoVars>>

NextKey == FindKeyCall

SpecKey == InitKey /\ [][NextKey]_vars

----------------------------------------------------------------------------
(* _parse_dms and _dms_to_decimal as calls *)

\* tokens of the first three components, and of the components after them
PlainTokens == { Text("2"), Text("3/2") }
TokenPool == PlainTokens
             \cup { Text("0"), Text("1/0"), Text("x"), Text("1/2/3"), Text("-1.5"), Text("/2"),
                    Text("1e2"), Text("4.8e1/1_0"), Text("nan"), Text("-inf"), Text("7") \o <<13>>,
                    Text("1/0.0"), Text("x/0"), Text("0x10"), <<1633>> }
ExtraPool == { Text("9"), Text("x/0") }

\* at most one of the first three tokens is not a plain one
TokenHeads ==
    { q \in SeqsUpTo(TokenPool, 3) : Cardinality({ i \in DOMAIN q : q[i] \notin PlainTokens }) <= 1 }
TokenSeqs ==
    TokenHeads
    \cup { h \o t : h \in { q \in TokenHeads : Len(q) = 3 }, t \in SeqsUpTo(ExtraPool, MaxParts - 3) }

\* the shapes a DMS value comes in: separated strings, wrapped or not, lists, tuples
DmsShapes(toks) ==
    { Str(<<91>> \o Csv(toks) \o <<93>>),
      Str(<<32, 40>> \o Join(toks, <<12>>) \o <<41, 13, 10>>),
      Str(Join(toks, <<44>>)),
      List(StrEach(toks)),
      Tuple([i \in DOMAIN toks |-> Str(<<160>> \o toks[i] \o <<32>>)]) }

ShapedSeqs == { q \in TokenSeqs : \A i \in DOMAIN q : q[i] \in {Text("2"), Text("3/2"), Text("x/0")} }

DmsValues ==
    { Str(Csv(toks)) : toks \in TokenSeqs }
    \cup UNION { DmsShapes(toks) : toks \in ShapedSeqs }
    \cup { Dms_tuple, Dms_floats, Dms_bools, Dms_inf, Dms_nested, Dms_dict, None, IntVal(5),
           Tuple(<<F_m3_5, Zero(TRUE), NaN>>), List(<<F_1_79, None, IntVal(1)>>),
           List(<<Inf(FALSE), Inf(TRUE), IntVal(0)>>) }

RefPool == { Ref_N, Ref_S, Ref_E, Ref_W,
             Str(Text("n")), Str(Text("s")), Str(Text("e")), Str(Text("w")),
             Str(<<32>> \o Text("N") \o <<9>>), Str(<<12>> \o Text("S") \o <<13>>),
             Str(<<10>> \o Text("e") \o <<32>>), Str(<<160>> \o Text("w") \o <<11>>),
             Str(Text("SW")), Str(<<>>), None, IntVal(1), List(<<Ref_S>>), Ref_long_s }

InitDms ==
    /\ pc = "ready"
    /\ dValue \in DmsValues
    /\ dParsed = Idle /\ dDec = <<>>
    /\ GpsIdle /\ KeyIdle /\ PipeIdle /\ GeoIdle

ParseDmsCall ==
    /\ pc = "ready"
    /\ dParsed' = _parse_dms(dValue)
    /\ pc' = "parsed"
    /\ UNCHANGED <<dValue, dDec, gpsVars, keyVars, pipeVars, geoVars>>

DmsToDecimalCall ==
    /\ pc = "parsed"
    /\ dDec' = [r \in RefPool |-> _dms_to_decimal(dValue, r)]
    /\ pc' = "done"
    /\ UNCHANGED <<dValue, dParsed, gpsVars, keyVars, pipeVars, geoVars>>

NextDms == ParseDmsCall \/ DmsToDecimalCall

SpecDms == InitDms /\ [][NextDms]_vars

----------------------------------------------------------------------------
(* compress_image_and_extract_metadata, then extraction from its metadata *)

\* what exifread.process_file hands over: tag names with values of any printable
\* shape, or an exception
RawLatPool == { <<>>, <<Entry(NsLat, WfDms(1))>>, <<Entry(NsLat, List(<<IntVal(48), IntVal(51), F_1_79>>))>>,
                <<Entry(BareLat, Dms_list)>>, <<Entry(NsLat, Dms_nan)>>, <<Entry(NsLat, Dms_inf)>>,
                <<Entry(NsLat, Dms_short)>>, <<Entry(CrLat, Dms_cr)>> }
RawLatRefPool == { <<Entry(NsLatRef, Ref_N)>>, <<Entry(BareLatRef, Ref_S_cr)>>, <<Entry(NsLatRef, None)>> }
RawLonPool == { <<Entry(NsLon, Dms_2_21)>>, <<Entry(NsLon, Tuple(<<F_48_5, IntVal(0), Str(Text("1/3"))>>))>> }
RawLonRefPool == { <<Entry(NsLonRef, Ref_W)>>, <<>> }

RawTags ==
    { Dict(a \o b \o c \o d) : a \in RawLatPool, b \in RawLatRefPool, c \in RawLonPool, d \in RawLonRefPool }
    \cup { Dict(<<Entry(T_ImageMake, Str(Text("it's \"X\""))), Entry(T_ImageModel, Str(<<92, 9, 233>>))>> \o FullTags),
           Dict(<<Entry(T_ImageModel, List(<<Str(<<8203, 233, 39>>), Str(KelvinKey)>>))>> \o FullTags),
           Dict(<<Entry(K_location, Dict(<<Entry(K_latitude, IntVal(1)), Entry(K_longitude, IntVal(2))>>))>>),
           Dict(<<Entry(K_exif, Dict(FullTags)), Entry(T_ExifImageWidth, IntVal(4000))>>),
           Dict(<<Entry(T_ImageMake, Str(<<55357>>))>> \o FullTags),
           Dict(<<>>) }

Reads ==
    { [kind |-> "tags", tags |-> t, text |-> <<>>] : t \in RawTags }
    \cup { [kind |-> "exception", tags |-> None, text |-> Text("unpack requires a buffer of 2 bytes")] }

Sizes == { <<2048, 1024>>, <<256, 512>>, <<49, 49>> }
Formats == { Str(Text("JPEG")), None }

\* the decoded image and the tags read from the same bytes
ImageInfos ==
    { [format |-> f, width |-> s[1], height |-> s[2], read |-> r] :
        f \in {Str(Text("JPEG"))}, s \in {<<2048, 1024>>}, r \in Reads }
    \cup { [format |-> f, width |-> s[1], height |-> s[2], read |-> r] :
             f \in Formats, s \in Sizes,
             r \in { [kind |-> "tags", tags |-> Dict(FullTags), text |-> <<>>] } }

InitPipe ==
    /\ pc = "ready"
    /\ image \in ImageInfos
    /\ exif = None /\ location = None /\ metadata = Idle
    /\ data = None /\ result = Idle
    /\ KeyIdle /\ DmsIdle /\ GeoIdle

\* lines 52-79, given the tags read and the outcome of the extraction: an
\* exception of the extraction or of safe_json leaves the call
CompressWith(exif_data, r) ==
    /\ exif' = exif_data
    /\ location' = IF r.ok THEN r.v ELSE None
    /\ metadata' = IF r.ok THEN BuildMetadata(image, exif_data, r.v) ELSE r

CompressNow(exif_data) == CompressWith(exif_data, extract_gps_from_exifread(exif_data))

CompressCall ==
    /\ pc = "ready"
    /\ CompressNow(extract_exif_with_exifread(image.read))
    /\ pc' = "built"
    /\ UNCHANGED <<image, gpsVars, keyVars, dmsVars, geoVars>>

\* the caller hands the metadata it got back to the extractor
ReExtractCall ==
    /\ pc = "built"
    /\ metadata.ok
    /\ data' = metadata.v
    /\ result' = extract_gps_from_exifread(metadata.v)
    /\ pc' = "done"
    /\ UNCHANGED <<pipeVars, keyVars, dmsVars, geoVars>>

NextPipe == CompressCall \/ ReExtractCall

SpecPipe == InitPipe /\ [][NextPipe]_vars

----------------------------------------------------------------------------
(* reverse_geocode_from_gps as a call *)

GeoLatPool == { <<>>, <<Entry(K_lat, None)>>, <<Entry(K_lat, IntVal(0))>>, <<Entry(K_lat, IntVal(48))>>,
                <<Entry(K_latitude, Zero(FALSE))>>, <<Entry(K_latitude, F_m3_5)>>,
                <<Entry(K_latitude, Zero(TRUE))>>, <<Entry(K_lat, Bool(FALSE))>>,
                <<Entry(K_latitude, Str(Text("10")))>>, <<Entry(K_latitude, Str(Text("x")))>>,
                <<Entry(K_lat, List(<<>>)), Entry(K_latitude, List(<<IntVal(1)>>))>>,
                <<Entry(K_lat, IntVal(0)), Entry(K_latitude, IntVal(5))>>,
                <<Entry(K_lat, None), Entry(K_latitude, IntVal(5))>> }
GeoLonPool == { <<>>, <<Entry(K_lon, None)>>, <<Entry(K_lon, IntVal(0))>>, <<Entry(K_lon, IntVal(2))>>,
                <<Entry(K_longitude, Zero(FALSE))>>, <<Entry(K_longitude, F_20)>>,
                <<Entry(K_longitude, Str(Text("20")))>>, <<Entry(K_longitude, Str(Text("1,5")))>>,
                <<Entry(K_lon, IntVal(0)), Entry(K_longitude, IntVal(0))>> }

GeoArgs ==
    { <<Dict(a \o b), None>> : a \in GeoLatPool, b \in GeoLonPool }
    \cup { <<a, b>> : a \in {IntVal(0), IntVal(48), F_m3_5, Str(Text("x")), None},
                      b \in {None, IntVal(0), IntVal(2), Str(Text("2e0")), Str(<<>>)} }

Paris == Str(Text("Paris"))
France == Str(Text("France"))

HttpOutcomes ==
    { [kind |-> "exception", status |-> 0, json |-> None],
      [kind |-> "response", status |-> 500, json |-> None],
      [kind |-> "response", status |-> 200, json |-> List(<<>>)],
      [kind |-> "response", status |-> 200, json |-> Dict(<<>>)],
      [kind |-> "response", status |-> 200, json |-> Dict(<<Entry(K_address, None)>>)],
      [kind |-> "response", status |-> 200,
       json |-> Dict(<<Entry(K_address, Dict(<<Entry(K_city, Paris), Entry(K_country, France)>>))>>)],
      [kind |-> "response", status |-> 200,
       json |-> Dict(<<Entry(K_address, Dict(<<Entry(K_town, Str(<<>>)), Entry(K_village, Paris)>>))>>)] }

InitGeo ==
    /\ pc = "ready"
    /\ \E a \in GeoArgs : gpsArg = a[1] /\ lonArg = a[2]
    /\ geoCalls = <<>> /\ geoRet = Idle
    /\ GpsIdle /\ KeyIdle /\ DmsIdle /\ PipeIdle

\* what the call does after req, the outcome of its own branches
Delegate(req, resp) ==
    /\ geoCalls' = IF req.kind = "lookup" THEN <<<<req.lat, req.lon>>>> ELSE <<>>
    /\ geoRet' = CASE req.kind = "lookup" -> Ok(reverse_geocode_from_latlon(req.lat, req.lon, resp))
                   [] req.kind = "none" -> Ok(NoPlace)
                   [] req.kind = "raise" -> Raise(req.exc)

ReverseGeocodeCall ==
    /\ pc = "ready"
    /\ \E resp \in HttpOutcomes : Delegate(reverse_geocode_from_gps(gpsArg, lonArg), resp)
    /\ pc' = "done"
    /\ UNCHANGED <<gpsArg, lonArg, gpsVars, keyVars, dmsVars, pipeVars>>

NextGeo == ReverseGeocodeCall

SpecGeo == InitGeo /\ [][NextGeo]_vars

----------------------------------------------------------------------------
(* Vocabulary of the properties, stated apart from the operators above *)

\* normalized form of a key: all whitespace removed, lower-cased
NormalForm(s) == Lower(SelectSeq(s, LAMBDA c : c \notin Whitespace))

\* a mapping of the data model: its keys are strings
StringKeyed(m) == \A i \in DOMAIN m.d : IsStr(m.d[i].k)
AllStrings(vs) == \A i \in DOMAIN vs : IsStr(vs[i])

\* some key of the mapping matches the candidate spelling c
Matches(keys, c) == \E i \in DOMAIN keys : NormalForm(keys[i].s) = NormalForm(c.s)

\* the components of a DMS value: items of a list/tuple, else the maximal
\* runs between commas/whitespace of the text without its outer brackets
Delims == Whitespace \cup {44}
DmsText(v) == Strip(Strip(PyStr(v), Whitespace), Brackets)
TokenStarts(s) == { i \in DOMAIN s : s[i] \notin Delims /\ (i = 1 \/ s[i - 1] \in Delims) }
TokenEnd(s, i) == CHOOSE j \in i..Len(s) :
                      /\ \A k \in i..j : s[k] \notin Delims
                      /\ (j = Len(s) \/ s[j + 1] \in Delims)
KthStart(s, k) == CHOOSE i \in TokenStarts(s) : Cardinality({ j \in TokenStarts(s) : j < i }) = k - 1
ComponentCount(v) ==
    IF v.t \in {"list", "tuple"} THEN Len(v.l) ELSE Cardinality(TokenStarts(DmsText(v)))
Component(v, k) ==
    IF v.t \in {"list", "tuple"} THEN PyStr(v.l[k])
    ELSE SubSeq(DmsText(v), KthStart(DmsText(v), k), TokenEnd(DmsText(v), KthStart(DmsText(v), k)))

\* a well-formed rational: a plain number, or a/b cut at the first "/" with b
\* a number that is not zero
FirstSlash(t) == CHOOSE i \in DOMAIN t : t[i] = 47 /\ \A j \in 1..(i - 1) : t[j] # 47
HasSlash(t) == \E i \in DOMAIN t : t[i] = 47
Numerator(t) == SubSeq(t, 1, FirstSlash(t) - 1)
Denominator(t) == SubSeq(t, FirstSlash(t) + 1, Len(t))
WellFormedRational(tok) ==
    LET t == Strip(tok, Whitespace)
    IN  IF HasSlash(t)
        THEN /\ ParseFloat(Numerator(t)).ok
             /\ ParseFloat(Denominator(t)).ok
             /\ ~IsZero(ParseFloat(Denominator(t)).v)
        ELSE ParseFloat(t).ok
RationalValue(tok) ==
    LET t == Strip(tok, Whitespace)
    IN  IF HasSlash(t)
        THEN FQuot(ParseFloat(Numerator(t)).v, ParseFloat(Denominator(t)).v)
        ELSE ParseFloat(t).v

WellFormedDms(v) ==
    ComponentCount(v) >= 3 /\ \A k \in 1..3 : WellFormedRational(Component(v, k))
DmsTriple(v) == [k \in 1..3 |-> RationalValue(Component(v, k))]

\* the reference, trimmed and upper-cased, is "S" or "W"
Negating(ref) == Upper(Strip(PyStr(ref), Whitespace)) \in {T_S, T_W}

\* D + M/60 + S/3600 in double arithmetic, negated for a negating reference
Decimal(t) == FAdd(FAdd(t[1], FQuot(t[2], F60)), FQuot(t[3], F3600))
SignedDecimal(v, ref) == IF Negating(ref) THEN FNeg(Decimal(DmsTriple(v))) ELSE Decimal(DmsTriple(v))

\* the input carries a usable pre-normalized location
LocOf(d) == DictGet(d, K_location)
UsableLocation(d) ==
    /\ IsDict(d) /\ HasKey(d, K_location) /\ IsDict(LocOf(d))
    /\ HasKey(LocOf(d), K_latitude) /\ ~IsNone(DictGet(LocOf(d), K_latitude))
    /\ HasKey(LocOf(d), K_longitude) /\ ~IsNone(DictGet(LocOf(d), K_longitude))
    /\ PyFloat(DictGet(LocOf(d), K_latitude)).ok
    /\ PyFloat(DictGet(LocOf(d), K_longitude)).ok

\* the four logical keys, each with its two spellings in preference order
LatNames == <<Str(NsLat), Str(BareLat)>>
LatRefNames == <<Str(NsLatRef), Str(BareLatRef)>>
LonNames == <<Str(NsLon), Str(BareLon)>>
LonRefNames == <<Str(NsLonRef), Str(BareLonRef)>>

Resolves(tags, names) == Matches(Keys(tags), names[1]) \/ Matches(Keys(tags), names[2])
AllFourResolve(tags) ==
    /\ Resolves(tags, LatNames) /\ Resolves(tags, LatRefNames)
    /\ Resolves(tags, LonNames) /\ Resolves(tags, LonRefNames)

\* the entry of a logical key, as the Key Resolver of the module resolves it
Resolved(tags, names) == DictGetVal(tags, _find_key(tags, names).v)

\* the tag source has all four keys and well-formed values for both coordinates
Complete(tags) ==
    /\ IsDict(tags)
    /\ AllFourResolve(tags)
    /\ WellFormedDms(Resolved(tags, LatNames))
    /\ WellFormedDms(Resolved(tags, LonNames))

\* what the tag-based states yield on a tag source
TagResult(tags) ==
    IF Complete(tags)
    THEN Coordinate(SignedDecimal(Resolved(tags, LatNames), Resolved(tags, LatRefNames)),
                    SignedDecimal(Resolved(tags, LonNames), Resolved(tags, LonRefNames)),
                    Str(S_EXIFREAD))
    ELSE None

HasExifMapping(d) == IsDict(d) /\ HasKey(d, K_exif) /\ IsDict(DictGet(d, K_exif))
SelectedSource(d) == IF HasExifMapping(d) THEN DictGet(d, K_exif) ELSE d

\* the input is of the data model: the tag names of the tag source are strings
TagNamesAreStrings(d) == IsDict(SelectedSource(d)) => StringKeyed(SelectedSource(d))

IsCoordinate(v) ==
    /\ IsDict(v)
    /\ Keys(v) = <<Str(K_latitude), Str(K_longitude), Str(K_method)>>
    /\ IsFloat(DictGet(v, K_latitude))
    /\ IsFloat(DictGet(v, K_longitude))

\* x == y of two floats: no NaN, the same number (the two zeros are equal)
FloatEq(x, y) == x.k # "nan" /\ y.k # "nan" /\ (x = y \/ (IsZero(x) /\ IsZero(y)))

----------------------------------------------------------------------------
(* Properties of extract_gps_from_exifread (SpecGps) *)

Called == pc = "done"

\* C1 as stated: extract_gps_from_exifread is total: on every input value and
\* for tag values of any shape the call returns a Coordinate record or None;
\* no exception escapes.
C1_AsStated ==
    Called => /\ result.ok
              /\ (IsNone(result.v) \/ IsCoordinate(result.v))

\* C1 (amended): the call returns a Coordinate record or None, and no
\* exception escapes, on every input that has a usable location, is no
\* mapping, or whose tag source (the mapping under "exif", else the input)
\* has only string keys, for tag values of any shape; when no usable location
\* applies and the tag source is a mapping with a key that is no string, the
\* key lookups raise TypeError and it escapes.
C1_Total ==
    Called => IF UsableLocation(data) \/ TagNamesAreStrings(data)
              THEN /\ result.ok
                   /\ (IsNone(result.v) \/ IsCoordinate(result.v))
              ELSE result = Raise("TypeError")

\* a conversion failed inside the try block (zero denominator) and the call
\* still returned None
C1_Witness ==
    /\ Called /\ result = Ok(None)
    /\ IsDict(data) /\ ~UsableLocation(data) /\ StringKeyed(SelectedSource(data))
    /\ AllFourResolve(SelectedSource(data))
    /\ Resolved(SelectedSource(data), LatNames) = Dms_zero_den

\* the method the original statement of C2 expects: location.method if
\* present (a null method read as absent)
MethodIfPresent(loc) ==
    IF HasKey(loc, K_method) /\ ~IsNone(DictGet(loc, K_method)) THEN DictGet(loc, K_method) ELSE Str(S_LOCATION)
\* the method the code yields: location.method if present and truthy
MethodIfTruthy(loc) ==
    IF HasKey(loc, K_method) /\ Truthy(DictGet(loc, K_method)) THEN DictGet(loc, K_method) ELSE Str(S_LOCATION)

LocationCoordinate(d, method) ==
    Coordinate(PyFloat(DictGet(LocOf(d), K_latitude)).v, PyFloat(DictGet(LocOf(d), K_longitude)).v, method)

\* C2 as stated: a usable "location" wins with method = location.method if
\* present, else "LOCATION"; otherwise the result is that of the tag-based
\* states.
C2_AsStated ==
    Called => IF UsableLocation(data)
              THEN result = Ok(LocationCoordinate(data, MethodIfPresent(LocOf(data))))
              ELSE /\ result.ok
                   /\ TagNamesAreStrings(data) => result = Ok(TagResult(SelectedSource(data)))

\* C2 (amended): a usable "location" wins, whatever GPS tags the input
\* carries, with latitude/longitude coerced to float and method =
\* location.method if present and truthy (not null, not empty, not zero), else
\* "LOCATION"; in every other case the result is exactly that of the
\* tag-based states on the same input: their coordinate or None when the tag
\* source is no mapping or has only string keys, and the TypeError they raise
\* when it is a mapping with a key that is no string.
C2_LocationFirst ==
    Called => IF UsableLocation(data)
              THEN result = Ok(LocationCoordinate(data, MethodIfTruthy(LocOf(data))))
              ELSE IF TagNamesAreStrings(data)
              THEN result = Ok(TagResult(SelectedSource(data)))
              ELSE result = Raise("TypeError")

\* a location with a caller-supplied method beats complete GPS tags
C2_Witness ==
    /\ Called /\ UsableLocation(data) /\ StringKeyed(SelectedSource(data))
    /\ ~IsNone(TagResult(SelectedSource(data)))
    /\ result.ok /\ IsCoordinate(result.v)
    /\ DictGet(result.v, K_method) = Str(Text("MANUAL"))
    /\ DictGet(result.v, K_latitude) = F_48_85
    /\ DictGet(result.v, K_latitude) # DictGet(TagResult(SelectedSource(data)), K_latitude)

\* C3: with no usable location, all four keys resolved and both values
\* well-formed DMS values, the result has method "EXIFREAD", latitude =
\* D + M/60 + S/3600 negated exactly when the trimmed, upper-cased reference
\* is "S" or "W", longitude likewise; any other reference (N, E, unknown,
\* null) leaves the value non-negated and raises nothing.
C3_SignedDecimal ==
    (/\ Called /\ ~UsableLocation(data) /\ TagNamesAreStrings(data)
     /\ Complete(SelectedSource(data)))
    => LET tags == SelectedSource(data)
       IN  /\ result.ok /\ IsCoordinate(result.v)
           /\ DictGet(result.v, K_method) = Str(S_EXIFREAD)
           /\ DictGet(result.v, K_latitude) =
                SignedDecimal(Resolved(tags, LatNames), Resolved(tags, LatRefNames))
           /\ DictGet(result.v, K_longitude) =
                SignedDecimal(Resolved(tags, LonNames), Resolved(tags, LonRefNames))

\* latitude negated by " s ", longitude negated by "W", both non-zero
C3_Witness ==
    /\ Called /\ ~UsableLocation(data) /\ result.ok /\ IsCoordinate(result.v)
    /\ Resolved(SelectedSource(data), LatRefNames) = Ref_s_padded
    /\ Resolved(SelectedSource(data), LonRefNames) = Ref_W
    /\ DictGet(result.v, K_latitude).neg /\ ~IsZero(DictGet(result.v, K_latitude))
    /\ DictGet(result.v, K_longitude).neg /\ ~IsZero(DictGet(result.v, K_longitude))

\* C4 as stated: with no usable location a coordinate is returned only if
\* all four logical keys resolve and both values parse; an unresolved key or
\* a value that fails to parse gives None: never an exception, never a
\* partial coordinate.
C4_AsStated ==
    (Called /\ ~UsableLocation(data))
    => /\ result.ok
       /\ TagNamesAreStrings(data) =>
            /\ (~IsNone(result.v) => Complete(SelectedSource(data)) /\ IsCoordinate(result.v))
            /\ (~Complete(SelectedSource(data)) => IsNone(result.v))

\* C4 (amended): with no usable location and a tag source that is no mapping
\* or has only string keys, a coordinate is returned only if all four logical
\* keys resolve and both values parse; an unresolved key or a value that fails
\* to parse (fewer than 3 components, non-numeric token, zero denominator)
\* gives None: never an exception, never a partial coordinate.  A tag source
\* with a key that is no string gives neither: the call raises TypeError.
C4_AbsenceOnFailure ==
    (Called /\ ~UsableLocation(data))
    => IF TagNamesAreStrings(data)
       THEN /\ result.ok
            /\ (~IsNone(result.v) => Complete(SelectedSource(data)) /\ IsCoordinate(result.v))
            /\ (~Complete(SelectedSource(data)) => IsNone(result.v))
       ELSE result = Raise("TypeError")

\* three keys resolve to well-formed entries, the longitude reference does not
\* resolve
C4_Witness ==
    /\ Called /\ ~UsableLocation(data) /\ result = Ok(None) /\ IsDict(SelectedSource(data))
    /\ StringKeyed(SelectedSource(data))
    /\ Resolves(SelectedSource(data), LatNames) /\ Resolves(SelectedSource(data), LatRefNames)
    /\ Resolves(SelectedSource(data), LonNames) /\ ~Resolves(SelectedSource(data), LonRefNames)
    /\ WellFormedDms(Resolved(SelectedSource(data), LatNames))
    /\ WellFormedDms(Resolved(SelectedSource(data), LonNames))

\* C8 as stated: with a mapping under "exif" that mapping alone is the tag
\* source (absence if it lacks the GPS keys, top-level keys ignored); without
\* one the whole input is the tag source; a tag source that is no mapping
\* gives absence.
C8_AsStated ==
    (Called /\ TagNamesAreStrings(data))
    => /\ (HasExifMapping(data) => result = Ok(TagResult(DictGet(data, K_exif))))
       /\ (~HasExifMapping(data) => result = Ok(TagResult(data)))
       /\ (~IsDict(SelectedSource(data)) => result = Ok(None))

\* C8 (amended): when no usable pre-normalized location applies and the tag
\* source has only string keys, a mapping under "exif" alone is the tag source
\* (top-level GPS keys are ignored, absence if it lacks them); when "exif" is
\* missing or no mapping the whole input is the tag source; a tag source that
\* is no mapping gives absence.  A tag source with a key that is no string
\* (under "exif" when that is a mapping, else in the input) raises TypeError.
C8_TagSelection ==
    (Called /\ ~UsableLocation(data))
    => IF TagNamesAreStrings(data)
       THEN /\ (HasExifMapping(data) => result = Ok(TagResult(DictGet(data, K_exif))))
            /\ (~HasExifMapping(data) => result = Ok(TagResult(data)))
            /\ (~IsDict(SelectedSource(data)) => result = Ok(None))
       ELSE result = Raise("TypeError")

\* complete GPS tags at top level, an "exif" mapping lacking two of them: absence
C8_Witness ==
    /\ Called /\ ~UsableLocation(data) /\ HasExifMapping(data)
    /\ StringKeyed(data) /\ StringKeyed(DictGet(data, K_exif))
    /\ ~IsNone(TagResult(Dict(SelectSeq(data.d, LAMBDA e : e.k # Str(K_exif)))))
    /\ ~AllFourResolve(DictGet(data, K_exif)) /\ DictGet(data, K_exif).d # <<>>
    /\ result = Ok(None)

----------------------------------------------------------------------------
(* Properties of the key resolver (SpecKey) *)

FirstMatch(keys, cands) ==
    CHOOSE c \in DOMAIN cands : Matches(keys, cands[c]) /\ \A b \in 1..(c - 1) : ~Matches(keys, cands[b])

KeyResolved(found, keys, cands) ==
    /\ found.ok
    /\ IsNone(found.v) <=> (\A c \in DOMAIN cands : ~Matches(keys, cands[c]))
    /\ ~IsNone(found.v) =>
         /\ \E i \in DOMAIN keys : keys[i] = found.v
         /\ NormalForm(found.v.s) = NormalForm(cands[FirstMatch(keys, cands)].s)

\* C6 as stated: for every mapping and every ordered candidate list,
\* _find_key and its inline copy return "not found" exactly when no key has
\* the normalized form of some candidate; otherwise an actual key of the
\* mapping whose normalized form is that of the earliest candidate having a
\* match.
C6_AsStated ==
    (Called /\ IsDict(kTags) /\ AllStrings(kCands))
    => /\ kFound.ok /\ kFoundIn.ok
       /\ StringKeyed(kTags) =>
            /\ KeyResolved(kFound, Keys(kTags), kCands)
            /\ KeyResolved(kFoundIn, Keys(kTags), kCands)

\* C6 (amended): on a mapping whose keys are strings and a list of candidate
\* strings, _find_key and its inline copy return "not found" exactly when no
\* key of the mapping has the normalized form (all whitespace removed,
\* lower-cased) of some candidate; otherwise an actual key of the mapping (its
\* own spelling) whose normalized form is that of the earliest candidate
\* having a match.  On a mapping with a key that is no string both raise
\* TypeError.
C6_KeyResolver ==
    (Called /\ IsDict(kTags))
    => /\ (StringKeyed(kTags) /\ AllStrings(kCands)) =>
            /\ KeyResolved(kFound, Keys(kTags), kCands)
            /\ KeyResolved(kFoundIn, Keys(kTags), kCands)
       /\ ~StringKeyed(kTags) =>
            /\ kFound = Raise("TypeError")
            /\ kFoundIn = Raise("TypeError")

\* "gps gpslatitude" and "GPSLatitude" both present, candidates namespaced
\* first: the lower-case key itself is returned
C6_Witness ==
    /\ Called /\ IsDict(kTags)
    /\ kCands = <<Str(NsLat), Str(BareLat)>>
    /\ Keys(kTags) = <<Str(BareLat), Str(Lower(NsLat))>>
    /\ kFound = Ok(Str(Lower(NsLat))) /\ kFoundIn = Ok(Str(Lower(NsLat)))

----------------------------------------------------------------------------
(* Properties of the DMS parser and the decimal converter (SpecDms) *)

\* C7: _parse_dms succeeds exactly when there are at least 3 components and
\* each of the first three is a well-formed rational; the result is their
\* values in order; components beyond the third never matter.
C7_ParseDms ==
    (pc \in {"parsed", "done"})
    => /\ dParsed.ok <=> WellFormedDms(dValue)
       /\ dParsed.ok => dParsed.v = Tuple(DmsTriple(dValue))

\* four components, the fourth malformed, the third a rational: parsed
C7_Witness ==
    /\ pc = "parsed" /\ dParsed.ok
    /\ ComponentCount(dValue) = 4 /\ ~WellFormedRational(Component(dValue, 4))
    /\ dParsed.v.l[3] = FQuot(FOfInt(3), FOfInt(2))

Souths == { Ref_S, Str(Text("s")), Str(<<12>> \o Text("S") \o <<13>>) }
Norths == { Ref_N, Str(Text("n")), Str(<<32>> \o Text("N") \o <<9>>) }
Wests == { Ref_W, Str(Text("w")), Str(<<160>> \o Text("w") \o <<11>>) }
Easts == { Ref_E, Str(Text("e")), Str(<<10>> \o Text("e") \o <<32>>) }

Opposite(a, b) == dDec[a].ok /\ dDec[b].ok /\ FloatEq(dDec[a].v, FNeg(dDec[b].v))

\* the parsed components are rational numbers
Rationals(p) == p.ok /\ \A i \in 1..3 : p.v.l[i].k = "fin"

\* C5 as stated: for every DMS-parseable value, _dms_to_decimal with "S"
\* equals the negation of that with "N", and with "W" the negation of that
\* with "E", also for lower-case or whitespace-padded reference letters.
C5_AsStated ==
    (Called /\ dParsed.ok)
    => /\ \A a \in Souths, b \in Norths : Opposite(a, b)
       /\ \A a \in Wests, b \in Easts : Opposite(a, b)

\* the pair of results is opposite, or both are NaN (which equals nothing)
OppositeOrNaN(a, b) ==
    /\ dDec[a].ok /\ dDec[b].ok
    /\ IF dDec[b].v.k = "nan" THEN dDec[a].v.k = "nan" ELSE FloatEq(dDec[a].v, FNeg(dDec[b].v))

\* C5 (amended): for every DMS-parseable value whose decimal value is a
\* number, _dms_to_decimal with "S" equals the negation of that with "N", and
\* with "W" the negation of that with "E", also for lower-case or
\* whitespace-padded reference letters; when the decimal value is NaN (a
\* component "nan", or infinite components that cancel) every result is NaN
\* and equals neither the other nor itself.
C5_Antisymmetry ==
    (Called /\ dParsed.ok)
    => /\ \A a \in Souths, b \in Norths : OppositeOrNaN(a, b)
       /\ \A a \in Wests, b \in Easts : OppositeOrNaN(a, b)

\* a non-zero value: strictly negative south, strictly positive north
C5_Witness ==
    /\ Called /\ Rationals(dParsed)
    /\ dDec[Str(Text("s"))].v.neg /\ ~IsZero(dDec[Str(Text("s"))].v)
    /\ ~dDec[Str(<<32>> \o Text("N") \o <<9>>)].v.neg

----------------------------------------------------------------------------
(* Property of the metadata round trip (SpecPipe) *)

\* C9 as stated: when the tags T yield a coordinate C, extraction from the
\* metadata container built from T returns a coordinate equal to C in
\* latitude, longitude and method (still "EXIFREAD"); when T yields None the
\* container has no "location" entry and re-extraction yields None again.
C9_AsStated ==
    /\ (pc \in {"built", "done"} /\ metadata.ok /\ IsNone(location)) => ~HasKey(metadata.v, K_location)
    /\ Called => IF IsNone(location)
                 THEN result = Ok(None)
                 ELSE /\ result.ok /\ IsCoordinate(result.v)
                      /\ FloatEq(DictGet(result.v, K_latitude), DictGet(location, K_latitude))
                      /\ FloatEq(DictGet(result.v, K_longitude), DictGet(location, K_longitude))
                      /\ DictGet(result.v, K_method) = DictGet(location, K_method)
                      /\ DictGet(result.v, K_method) = Str(S_EXIFREAD)

\* the same double, which is an equal one unless it is NaN
SameDouble(x, y) == x = y /\ (FloatEq(x, y) <=> x.k # "nan")

\* C9 (amended): when the tags T yield a coordinate C, extraction from the
\* metadata container built from T returns the latitude and longitude of C
\* as the same doubles and its method, still "EXIFREAD": equal to C whenever
\* neither is NaN, while a NaN latitude or longitude (a component "nan")
\* comes back NaN and so is not equal to C; when T yields None the container
\* has no "location" entry and re-extraction yields None again.
C9_ReExtract ==
    /\ (pc \in {"built", "done"} /\ metadata.ok /\ IsNone(location)) => ~HasKey(metadata.v, K_location)
    /\ Called => IF IsNone(location)
                 THEN result = Ok(None)
                 ELSE /\ DictGet(metadata.v, K_exif) = exif
                      /\ DictGet(metadata.v, K_location) = location
                      /\ result.ok /\ IsCoordinate(result.v)
                      /\ SameDouble(DictGet(result.v, K_latitude), DictGet(location, K_latitude))
                      /\ SameDouble(DictGet(result.v, K_longitude), DictGet(location, K_longitude))
                      /\ DictGet(result.v, K_method) = DictGet(location, K_method)
                      /\ DictGet(result.v, K_method) = Str(S_EXIFREAD)

\* a coordinate south of the equator whose decimals take 17 digits comes back
C9_Witness ==
    /\ Called /\ ~IsNone(location)
    /\ data = metadata.v /\ HasKey(metadata.v, K_location)
    /\ result = Ok(location)
    /\ DictGet(location, K_latitude).neg
    /\ Len(FRepr(DictGet(location, K_latitude))) > 17

----------------------------------------------------------------------------
(* Property of reverse_geocode_from_gps (SpecGeo) *)

NonNull(d, k) == HasKey(d, k) /\ ~IsNone(DictGet(d, k))
Numeric(d, k) == ~NonNull(d, k) \/ DictGet(d, k).t \in {"int", "float"}

\* C10: called with a dict, reverse_geocode_from_gps delegates to
\* reverse_geocode_from_latlon whenever the dict holds a non-null latitude
\* under "lat" or "latitude" and a non-null longitude under "lon" or
\* "longitude", for every numeric value; it returns (None, None) without a
\* lookup only when latitude or longitude is missing or null under both
\* spellings.
C10_Delegates ==
    (Called /\ IsDict(gpsArg)
     /\ Numeric(gpsArg, K_lat) /\ Numeric(gpsArg, K_latitude)
     /\ Numeric(gpsArg, K_lon) /\ Numeric(gpsArg, K_longitude))
    => LET hasLat == NonNull(gpsArg, K_lat) \/ NonNull(gpsArg, K_latitude)
           hasLon == NonNull(gpsArg, K_lon) \/ NonNull(gpsArg, K_longitude)
       IN  /\ (hasLat /\ hasLon) => Len(geoCalls) = 1
           /\ (geoCalls = <<>> /\ geoRet = Ok(NoPlace)) => ~(hasLat /\ hasLon)
====
